---- MODULE Spec2Model ----
(***************************************************************************)
(* Model of the soft-robot pressure control harness.                       *)
(*                                                                         *)
(*   Spec      : one session of main.py (Controller.run / Controller.stop, *)
(*               the wave thread, the logging thread, the actuators).      *)
(*   SpecSend  : one Controller.send_all call, followed byte by byte       *)
(*               through ArduinoManager.send_pressure.                     *)
(*   SpecVtech : one run of a vtech.py / wave_functions.py pressure        *)
(*               routine on the control thread, with the launcher's        *)
(*               KeyboardInterrupt handler clearing the stop flags.        *)
(*   SpecVtechLive : SpecVtech with the two data-exchange threads, under   *)
(*               weak fairness of each thread.                             *)
(*   SpecCycle : the session with a fair wave thread and a duration that   *)
(*               does not elapse.                                          *)
(*   SpecWorkers : the session with the progress and pose reader threads.  *)
(*   SpecPorts : ArduinoManager.connect binding a port per channel id.     *)
(*   SpecMocap : MocapManager's receive loop, get_data and stop.           *)
(*   SpecLog   : DataLogger.log against writers of desired and measured.   *)
(*   SpecStore : DataLogger.start, log and stop writing the HDF5 groups.   *)
(*   SpecNumbering : experiment_number and the numbered CSV files.         *)
(*   SpecPhases : the phase of each channel in circular and elliptical.    *)
(*   SpecWaveGen : pres_wave_controlled_response over the signal           *)
(*               generators of wave_generation.py.                         *)
(*   SpecTriangle : the triangular wave of vtech.py and wave_functions.py. *)
(*   SpecArd   : one ard_socket exchange with an actuator.                 *)
(*   SpecPositioning : pressure_sequential_custom_response on the channels *)
(*               4, 7 and 8 of test_robot_positioning.py.                  *)
(*   SpecRamp  : PressureController.pres_single_ramp_response.             *)
(*   SpecMotion : circular, elliptical_motion and their variants with a    *)
(*               static channel (wave_functions.py).                       *)
(*   SpecCleanup : ArduinoManager.cleanup and                              *)
(*               CommunicationManager.cleanup.                             *)
(*   SpecSave  : DataLogger.stop against a logging thread inside           *)
(*               DataLogger.log.                                           *)
(*   SpecGenerator : BaseSignalGenerator.start, stop, get_current_value.   *)
(*   SpecLeakage : LeakageTest.run_test of test_leakage.py.                *)
(*                                                                         *)
(* Pressures are integers in units of 1/20 psi (the step of main.py's      *)
(* sequential ramp, t / 20.0).  Time is not measured: a sleep is a point   *)
(* where the other threads may run, and a timeout may expire at any step.  *)
(* The sinusoids are sampled at quarter periods, where sin is 0, 1, 0, -1. *)
(***************************************************************************)
EXTENDS Integers, Sequences, FiniteSets, TLC

(***************************************************************************)
(* Configuration of main.py                                                *)
(***************************************************************************)
\* units per psi: sequential() counts in steps of 1/20 psi
PSI == 20

\* ARDUINO_IDS as shipped, and a channel list holding the ids 4 and 8 that
\* sequential() needs
ARDUINO_IDS_SHIPPED == <<3, 6, 7, 8>>
ARDUINO_IDS_SEQ == <<4, 6, 7, 8>>
IdConfigs == {ARDUINO_IDS_SHIPPED, ARDUINO_IDS_SEQ}

\* len(ARDUINO_IDS)
NumChannels == Len(ARDUINO_IDS_SHIPPED)
Channels == 1..NumChannels

\* every TARGET_PRESSURES entry, in 1/20 psi (shipped: 5.0 psi = 100 units);
\* int(target * 20) is the number of steps of each sequential ramp
TARGET == 2

END_AFTER_ONE_CYCLE == TRUE

\* steps = int(RAMPDOWN_DURATION / 0.01)
RAMPDOWN_STEPS == 500

\* the logging buffer is counted up to MaxRows rows (MaxRows means "or more")
MaxRows == 1

WAVES == {"circular", "sequential", "elliptical", "axial"}

\* WAVE_FUNCTION as shipped
WAVE_FUNCTION_SHIPPED == "axial"

\* EXPERIMENT_DURATION as shipped (seconds), and a duration of zero
EXPERIMENT_DURATION_SHIPPED == 120
Durations == {0, EXPERIMENT_DURATION_SHIPPED}

\* the frame the actuators answer with during a session
SessionFrame == <<10, 107, 127, 255, 0, 3, 10, 171>>

Threads == {"main", "wave"}

VARIABLES
    WAVE_FUNCTION,    \* the configured routine name
    ARDUINO_IDS,      \* the configured channel list
    pc,               \* position of the main, wave, log, progress and pose threads
    running,          \* Controller.running
    desired,          \* Controller.desired
    start_pressures,  \* graceful_rampdown's copy of desired
    step,             \* graceful_rampdown's loop variable
    seqT,             \* sequential()'s loop variable t
    io,               \* per thread: position inside send_all
    lastCmd,          \* per actuator: the last pressure command it received
    socketsOpen,      \* the client sockets are open
    inExchange,       \* per thread: the channel it sent to and awaits a reply from
    rdSends,          \* history: send_all calls completed by graceful_rampdown
    sendsAfterStop,   \* history: send_all calls the wave routine began after running became False
    zeroSent,         \* history: per actuator, stop()'s final zero command arrived
    nrows,            \* len(DataLogger.data_buffer), counted up to MaxRows
    hdf5_path,        \* DataLogger.hdf5_path is set
    persisted,        \* DataLogger.stop wrote the group: data and metadata
    mocapStopped,     \* MocapManager.stop was called
    exitVia,          \* how the process ended: "none", "return", "sigint", "error"
    EXPERIMENT_DURATION,  \* the configured duration, in seconds
    measured,         \* Controller.measured
    connected,        \* ArduinoManager.connect: channels accepted so far
    connectFailed,    \* history: connecting a channel raised
    commanded,        \* history: a pressure command was sent to an actuator
    lastRowZero       \* history: the pd_* values of the last logged row are all 0.0

ctlVars == <<WAVE_FUNCTION, ARDUINO_IDS, pc, running, desired, start_pressures,
             step, seqT, io, lastCmd, socketsOpen, inExchange,
             rdSends, sendsAfterStop, zeroSent, nrows, hdf5_path, persisted,
             mocapStopped, exitVia, EXPERIMENT_DURATION, measured, connected,
             connectFailed, commanded, lastRowZero>>

\* the variables most steps of the session leave alone
ctlAux == <<measured, connected, connectFailed, commanded, lastRowZero>>

\* one Controller.send_all call followed byte by byte (specification SpecSend)
VARIABLES
    spPc,          \* "call", "recv", "except", "raised", "done"
    spIdx,         \* send_all's loop variable i (1-based)
    spData,        \* send_pressure's data: the response bytes received so far
    spFrame,       \* the 8 bytes the actuator answers with
    spLastRecv,    \* length of what the last recv returned, -1 before the first
    spPeerClosed,  \* per channel: the actuator has closed its connection
    spExcKind,     \* the exception raised inside the try block
    spMeasured,    \* Controller.measured
    spVia,         \* history, per channel: how send_pressure returned
    spRaised       \* history: an exception left send_pressure

spVars == <<spPc, spIdx, spData, spFrame, spLastRecv, spPeerClosed, spExcKind,
            spMeasured, spVia, spRaised>>

\* one run of a vtech.py / wave_functions.py pressure routine (SpecVtech)
VARIABLES
    vtProgram,         \* the routine the control thread runs
    vtPc,              \* position of the control thread
    th1_flag,          \* PressureController.th1_flag
    th2_flag,          \* PressureController.th2_flag
    stopPc,            \* position of the launcher's KeyboardInterrupt handler
    flag_reset,        \* PressureController.flag_reset
    pd_array_1,        \* PressureController.pd_array_1
    vtLastCmd,         \* per actuator: the last pressure command it received
    vtGlob,            \* iterations of th_pd_gen's trial loop so far
    vtCycle,           \* the cycle counter of the routine's outer loop
    vtTick,            \* rounds sent by the current timing loop
    vtEnd,             \* time.time() has reached the routine's end_time
    sqPhase,           \* pressure_sequential_custom_response: the current phase
    roundsAfterStop,   \* history: rounds of commands sent after a flag was cleared
    nonzeroCommanded,  \* history: a non-zero pressure was commanded
    th3_flag,          \* PressureController.th3_flag
    run_event,         \* PressureController.run_event is set
    th2Pc,             \* position of th2 (th_data_exchange)
    th3Pc,             \* position of th3 (th_data_exchange_high)
    received_count     \* th_data_exchange_high: rows written in this rate window

\* what the control thread and the launcher's handler never write
vtWorkerVars == <<th3_flag, run_event, th2Pc, th3Pc, received_count>>

vtVars == <<vtProgram, vtPc, th1_flag, th2_flag, stopPc, flag_reset,
            pd_array_1, vtLastCmd, vtGlob, vtCycle, vtTick, vtEnd, sqPhase,
            roundsAfterStop, nonzeroCommanded, vtWorkerVars>>

\* ArduinoManager.connect binding the channels' ports (specification SpecPorts)
VARIABLES
    ptIds,     \* the configured ARDUINO_IDS
    ptIdx,     \* connect's loop position (1-based)
    ptBound,   \* per channel bound so far: the port it was bound to
    ptError    \* the exception that left connect, "none" if none

ptVars == <<ptIds, ptIdx, ptBound, ptError>>

\* MocapManager and its reader thread (specification SpecMocap)
VARIABLES
    mcData,     \* MocapManager.data
    mcLast,     \* _loop's last_data (<<>> stands for None)
    mcRunning,  \* MocapManager.running
    mcPc,       \* position of the reader thread
    mcRecv,     \* what the current recv produced
    mcValid,    \* history: the most recent message with at least 21 values
    mcGot       \* history: what get_data returned last

mcVars == <<mcData, mcLast, mcRunning, mcPc, mcRecv, mcValid, mcGot>>

\* DataLogger.log and the writers of desired and measured (specification SpecLog)
VARIABLES
    lgDesired,    \* Controller.desired
    lgMeasured,   \* Controller.measured
    lgMocap,      \* what MocapManager.get_data returned
    data_buffer,  \* DataLogger.data_buffer
    lgAtCall      \* history: per row, the values that were current at the log call

lgVars == <<lgDesired, lgMeasured, lgMocap, data_buffer, lgAtCall>>

\* DataLogger.start / log / stop and the monthly HDF5 file (specification
\* SpecStore)
VARIABLES
    USE_MOCAP,        \* the configuration switch
    MOCAP_AVAILABLE,  \* whether "import zmq" succeeded
    stIds,            \* the configured ARDUINO_IDS
    h5file,           \* the monthly file: group name -> group
    stPath,           \* DataLogger.hdf5_path is set
    exp_group_name,   \* DataLogger.exp_group_name
    stBuffer,         \* DataLogger.data_buffer
    stStops,          \* DataLogger.stop calls that have returned or raised
    stRaised,         \* an exception left DataLogger.stop
    stFirst           \* history: the file as the first stop call left it

stVars == <<USE_MOCAP, MOCAP_AVAILABLE, stIds, h5file, stPath, exp_group_name,
            stBuffer, stStops, stRaised, stFirst>>

\* PressureController.experiment_number and the day's directory
\* (specification SpecNumbering)
VARIABLES
    csvDir,     \* os.listdir(experiment_dir)
    file_name,  \* the name experiment_number returned last
    csvBefore   \* history: the directory at that call

csvVars == <<csvDir, file_name, csvBefore>>

\* one pass after another of the loop body of circular and elliptical
\* (specification SpecPhases)
VARIABLES
    wvRoutine,  \* the routine running
    wvT,        \* the pass's elapsed time t, in quarter periods
    wvI,        \* channels the pass has written so far (the for loop's i)
    wvDesired   \* controller.desired

wvVars == <<wvRoutine, wvT, wvI, wvDesired>>

\* PressureController.pres_wave_controlled_response driving one channel from
\* its signal generator (specification SpecWaveGen)
VARIABLES
    wgGen,      \* the channel's generator (its SignalParameters)
    wgRunning,  \* generator.is_running
    wgT,        \* the elapsed time of the last pass, in seconds
    wgPd        \* pd_array_1[0], in psi

wgVars == <<wgGen, wgRunning, wgT, wgPd>>

\* the triangular routines sampled tick by tick (specification SpecTriangle)
VARIABLES
    tgRoutine,  \* which of the two triangular routines runs
    tgBounds,   \* its lower_bound and upper_bound
    tgN,        \* len(NArs)
    tgT,        \* t_elapsed of the next pass, in ticks
    tgPd,       \* pd_array_1
    tgTrace     \* history: current_pressure of every pass so far, from t = 0

tgVars == <<tgRoutine, tgBounds, tgN, tgT, tgPd, tgTrace>>

\* one PressureController.ard_socket call and the assignment of its result
\* (specification SpecArd)
VARIABLES
    asPc,           \* position of the call
    asStream,       \* bytes the actuator delivers that are not read yet
    asPeerCloses,   \* the actuator closes the connection after those bytes
    received_data,  \* ard_socket's received_data
    asPm            \* pm_array_1[i]

asVars == <<asPc, asStream, asPeerCloses, received_data, asPm>>

\* pressure_sequential_custom_response with NArs = [4, 7, 8]
\* (specification SpecPositioning)
VARIABLES
    pqPhase,   \* the phase loop the routine is in
    pqTick,    \* seconds spent in the phase loop
    pqPd,      \* pd_array_1, in psi
    pqStart,   \* start_pressure of the ramp down
    pqCycle,   \* cycle_count
    pqFlags,   \* th1_flag and th2_flag
    pqEnded,   \* time.time() >= experiment_end_time
    pqSent     \* the pressures of the last _send_pressure_commands

pqVars == <<pqPhase, pqTick, pqPd, pqStart, pqCycle, pqFlags, pqEnded, pqSent>>

\* PressureController.pres_single_ramp_response (specification SpecRamp)
VARIABLES
    rpNArs,    \* self.NArs
    rpBounds,  \* up_rate, down_rate, upper_bound, lower_bound
    rpPd,      \* self.pd_array_1, in psi
    rpPart,    \* "up", "pause", "down" or "returned"
    rpI,       \* i of the for loop of the part
    rpPc,      \* "for": at the head of the for loop, "while": in the ramp
    rpT,       \* t_elapsed of the ramp, in seconds
    rpFlag,    \* self.th1_flag
    rpSent     \* the pressures of the last exchange with the actuators

rpVars == <<rpNArs, rpBounds, rpPd, rpPart, rpI, rpPc, rpT, rpFlag, rpSent>>

\* wave_functions.py: circular, circular_with_static_pressure,
\* elliptical_motion, elliptical_with_one_static (specification SpecMotion)
VARIABLES
    msRoutine,    \* the routine that runs
    msNArs,       \* client_instance.NArs
    msPd,         \* client_instance.pd_array_1
    msPc,         \* "setup", "while", "for", "returned" or "raised"
    msI,          \* i of the for loop (from 1)
    msCounter,    \* phase_counter
    msT,          \* t of the tick, in twelfths of the period
    msFlags,      \* th1_flag and th2_flag
    msEnded,      \* time.time() >= end
    msWarned,     \* the "not found" warning was printed
    msWritten,    \* the channels written in the tick
    msExchanged   \* the channels exchanged with their actuator in the tick

msVars == <<msRoutine, msNArs, msPd, msPc, msI, msCounter, msT, msFlags,
            msEnded, msWarned, msWritten, msExchanged>>

\* ArduinoManager.cleanup and CommunicationManager.cleanup
\* (specification SpecCleanup)
VARIABLES
    clManager,    \* the class whose cleanup runs
    clSockets,    \* per socket held: "open" or "closed"
    clFaulty,     \* the sockets whose close() raises
    clPc,         \* "idle", "loop" or "done"
    clI,          \* position of the for loop
    clAttempted,  \* the sockets close() was called on in the call
    clCalls,      \* number of calls of cleanup
    clPropagated, \* an exception left cleanup
    clTermed      \* zmq_context.term() was called in the call

clVars == <<clManager, clSockets, clFaulty, clPc, clI, clAttempted, clCalls,
            clPropagated, clTermed>>

\* DataLogger.stop against a logging thread inside DataLogger.log
\* (specification SpecSave)
VARIABLES
    svRunning,      \* Controller.running
    svPath,         \* self.hdf5_path is set
    svBuffer,       \* len(self.data_buffer)
    svLogPc,        \* the logging thread: "loop", "built" or "exited"
    svStopPc,       \* DataLogger.stop: "idle", "convert", "dataset", "attrs",
                    \* "returned"
    svArray,        \* rows of data_array (-1: not converted)
    svRows,         \* rows of the dataset written (-1: none)
    svSampleCount   \* the sample_count attribute written (-1: none)

svVars == <<svRunning, svPath, svBuffer, svLogPc, svStopPc, svArray, svRows,
            svSampleCount>>

\* BaseSignalGenerator: start, stop, get_current_value
\* (specification SpecGenerator)
VARIABLES
    gnGen,          \* the generator's parameters
    gnRunning,      \* self.is_running
    gnStartTime,    \* self.start_time (-1: None)
    gnNow,          \* time.time(), in seconds
    gnRet,          \* the value of the last call of get_current_value
    gnPhase,        \* history: "never" started, "active", "expired", "stopped"
    gnCallPhase,    \* history: gnPhase when the last call was made
    gnCallElapsed   \* history: time since the last start() at the last call

gnVars == <<gnGen, gnRunning, gnStartTime, gnNow, gnRet, gnPhase, gnCallPhase,
            gnCallElapsed>>

\* test_leakage.py: LeakageTest.run_test (specification SpecLeakage)
VARIABLES
    lkPc,         \* "loop", "returned" or "raised"
    lkRunning,    \* self.running
    lkN,          \* samples stored per sensor; also the pass's elapsed time
    lkLeakAt,     \* per sensor: the sample from which it reads low (-1: none)
    lkStable,     \* self.stabilization_complete
    lkBaseline,   \* self.baseline_pressure, as sums of 10 readings
    lkDetected,   \* self.leakage_detected
    lkSensor,     \* self.leakage_sensor (-1: None)
    lkTime        \* self.leakage_time (-1: None)

lkVars == <<lkPc, lkRunning, lkN, lkLeakAt, lkStable, lkBaseline, lkDetected,
            lkSensor, lkTime>>

extVars == <<stVars, csvVars, wvVars, wgVars, tgVars, asVars, pqVars, rpVars, msVars, clVars, svVars, gnVars, lkVars>>

auxVars == <<ptVars, mcVars, lgVars, extVars>>

vars == <<ctlVars, spVars, vtVars, auxVars>>

(***************************************************************************)
(* Helpers                                                                 *)
(***************************************************************************)
Min(a, b) == IF a < b THEN a ELSE b
Max(a, b) == IF a > b THEN a ELSE b

Zeros == [i \in Channels |-> 0]

\* sin at quarter periods: sin(k * pi/2)
SinQ(k) == CASE k % 4 = 0 -> 0
             [] k % 4 = 1 -> 1
             [] k % 4 = 2 -> 0
             [] k % 4 = 3 -> -1

QuarterSamples == 0..3

\* the quarter samples a main.py routine is followed at: sin = 1 and sin = -1
SessionSamples == {1, 3}

\* ARDUINO_IDS.index(x), 0 when x is not in the list (ValueError)
IndexOf(ids, x) == IF \E i \in 1..Len(ids) : ids[i] = x
                   THEN CHOOSE i \in 1..Len(ids) : ids[i] = x
                   ELSE 0

\* a worker loop that never looks at the flag
WhileTrue == TRUE

\* "while self.running:", the loop condition of Controller._log_loop and
\* Controller._progress_loop
WhileRunning == running

\* the process is alive: daemon threads run only until the main thread exits
Alive == exitVia = "none"

\* a step of the main.py session leaves the other models' variables alone
CtlStep == Alive /\ UNCHANGED <<spVars, vtVars, auxVars>>

\* a step of the send_pressure model leaves the other models' variables alone
SpStep == UNCHANGED <<ctlVars, vtVars, auxVars>>

(***************************************************************************)
(* Initial state: Controller.__init__, before main() calls initialize()    *)
(***************************************************************************)
CtlInit ==
    /\ WAVE_FUNCTION \in WAVES
    /\ ARDUINO_IDS \in IdConfigs
    /\ EXPERIMENT_DURATION \in Durations
    /\ ARDUINO_IDS = ARDUINO_IDS_SEQ => WAVE_FUNCTION = "sequential"
    /\ EXPERIMENT_DURATION <= 0 => WAVE_FUNCTION = WAVE_FUNCTION_SHIPPED
    /\ measured = [i \in Channels |-> <<0, 0, 0, 0>>]
    /\ connected = 0
    /\ connectFailed = FALSE
    /\ commanded = FALSE
    /\ lastRowZero = FALSE
    /\ pc = [main |-> "initialize", wave |-> "idle", log |-> "idle",
             progress |-> "idle", pose |-> "idle"]
    /\ running = FALSE
    /\ desired = Zeros
    /\ start_pressures = Zeros
    /\ step = 0
    /\ seqT = 0
    /\ io = [t \in Threads |-> 1]
    /\ lastCmd = Zeros
    /\ socketsOpen = FALSE
    /\ inExchange = [t \in Threads |-> 0]
    /\ rdSends = 0
    /\ sendsAfterStop = 0
    /\ zeroSent = [i \in Channels |-> FALSE]
    /\ nrows = 0
    /\ hdf5_path = FALSE
    /\ persisted = FALSE
    /\ mocapStopped = FALSE
    /\ exitVia = "none"

(***************************************************************************)
(* ArduinoManager.send_pressure: the response frame and its conversion     *)
(***************************************************************************)
\* response frames an actuator may answer with: four big-endian 16-bit values
\* 0, 256, -1, -32768 and 2667, 32767, 3, 2731
Frame1 == <<0, 0, 1, 0, 255, 255, 128, 0>>
Frame2 == <<10, 107, 127, 255, 0, 3, 10, 171>>
FrameSamples == {Frame1, Frame2}

\* the response frame is 8 bytes long
FRAME_SIZE == 8

\* exceptions that can be raised inside the try block: a socket error, and
\* SystemExit from the SIGINT handler when the main thread is inside the call
ExcKinds == {"OSError", "SystemExit"}

\* struct.unpack(">4h", data): one big-endian signed 16-bit integer
Signed16(hi, lo) == IF hi * 256 + lo >= 32768 THEN hi * 256 + lo - 65536
                                               ELSE hi * 256 + lo

\* round(x, 4) of x = num / den, as an integer number of 1e-4 (ties to even)
RoundHalfEven(num, den) ==
    LET q == num \div den
        r == num % den
    IN  IF 2 * r > den \/ (2 * r = den /\ q % 2 = 1) THEN q + 1 ELSE q

\* volt = val * (12.288 / 65536.0); round((30.0 * (volt - 0.5)) / 4.0, 4)
\* = round(val * 225 / 160000 - 3.75, 4), in units of 1e-4 psi
Calibrate(val) == RoundHalfEven(225 * val - 600000, 16)

\* the sensors list built from a complete frame
Sensors(data) == [j \in 1..4 |-> Calibrate(Signed16(data[2 * j - 1], data[2 * j]))]

\* a fallback list one value short
ShortFallback == <<0, 0, 0>>

\* except: return [0.0] * 4
Fallback == <<0, 0, 0, 0>>

(***************************************************************************)
(* Controller.send_all: one exchange per channel, in channel order.        *)
(* Each thread that calls send_all runs these steps on its own.            *)
(***************************************************************************)
SendLabels == {"c_init_send", "c_send", "a_init_send", "a_send", "e_send",
               "s_ramp4_send", "s_up_send", "s_down_send",
               "rd_loop_send", "rd_final_send"}

\* where a thread continues when its send_all call returns
AfterSend(label) ==
    CASE label = "c_init_send" -> "c_loop"
      [] label = "c_send" -> "c_loop"
      [] label = "a_init_send" -> "a_loop"
      [] label = "a_send" -> "a_loop"
      [] label = "e_send" -> "e_loop"
      [] label = "s_ramp4_send" -> "s_ramp4"
      [] label = "s_up_send" -> "s_up"
      [] label = "s_down_send" -> "s_down"
      [] label = "rd_loop_send" -> "rd_loop"
      [] label = "rd_final_send" -> "mocap_stop"

\* ArduinoManager.send_pressure, first half: socket.send of desired[i].
\* On a closed socket send raises and the bare except returns the fallback.
SockSend(t) ==
    /\ CtlStep
    /\ UNCHANGED <<connected, connectFailed, lastRowZero>>
    /\ pc[t] \in SendLabels
    /\ io[t] \in Channels
    /\ inExchange[t] = 0
    /\ IF socketsOpen
       THEN /\ lastCmd' = [lastCmd EXCEPT ![io[t]] = desired[io[t]]]
            /\ inExchange' = [inExchange EXCEPT ![t] = io[t]]
            /\ zeroSent' = IF pc[t] = "rd_final_send" /\ desired[io[t]] = 0
                           THEN [zeroSent EXCEPT ![io[t]] = TRUE]
                           ELSE zeroSent
            /\ io' = io
            /\ commanded' = TRUE
            /\ UNCHANGED measured
       ELSE /\ io' = [io EXCEPT ![t] = io[t] + 1]
            /\ measured' = [measured EXCEPT ![io[t]] = Fallback]
            /\ UNCHANGED <<lastCmd, inExchange, zeroSent, commanded>>
    /\ UNCHANGED <<WAVE_FUNCTION, ARDUINO_IDS, EXPERIMENT_DURATION, pc, running, desired,
                   start_pressures, step, seqT, socketsOpen, rdSends,
                   sendsAfterStop, nrows, hdf5_path, persisted, mocapStopped,
                   exitVia>>

\* ArduinoManager.send_pressure, second half: the 8 response bytes arrive (or
\* recv raises) and send_all stores the reading and moves to the next channel.
SockRecv(t) ==
    /\ CtlStep
    /\ UNCHANGED <<connected, connectFailed, commanded, lastRowZero>>
    /\ inExchange[t] # 0
    /\ measured' = [measured EXCEPT ![inExchange[t]] =
                        IF socketsOpen THEN Sensors(SessionFrame) ELSE Fallback]
    /\ inExchange' = [inExchange EXCEPT ![t] = 0]
    /\ io' = [io EXCEPT ![t] = io[t] + 1]
    /\ UNCHANGED <<WAVE_FUNCTION, ARDUINO_IDS, EXPERIMENT_DURATION, pc, running, desired,
                   start_pressures, step, seqT, lastCmd, socketsOpen, rdSends, sendsAfterStop, zeroSent, nrows,
                   hdf5_path, persisted, mocapStopped, exitVia>>

\* send_all returns to its caller
SendAllReturn(t) ==
    /\ CtlStep
    /\ UNCHANGED ctlAux
    /\ pc[t] \in SendLabels
    /\ io[t] = NumChannels + 1
    /\ pc' = [pc EXCEPT ![t] = AfterSend(pc[t])]
    /\ io' = [io EXCEPT ![t] = 1]
    /\ rdSends' = IF t = "main" THEN rdSends + 1 ELSE rdSends
    /\ UNCHANGED <<WAVE_FUNCTION, ARDUINO_IDS, EXPERIMENT_DURATION, running, desired,
                   start_pressures, step, seqT, lastCmd, socketsOpen,
                   inExchange, sendsAfterStop, zeroSent, nrows,
                   hdf5_path, persisted, mocapStopped, exitVia>>

send_all == \E t \in Threads : SockSend(t) \/ SockRecv(t) \/ SendAllReturn(t)

\* history: a send_all call the wave routine begins after running became False
BeginSend == sendsAfterStop' = IF running THEN sendsAfterStop
                                          ELSE sendsAfterStop + 1

(***************************************************************************)
(* main() and Controller.run                                               *)
(***************************************************************************)
\* main(): "if not controller.initialize(): return 1", inside
\* "try: ... except Exception: return 1".  Where main goes on after
\* initialize returned True, returned False or raised.
MainIgnoresInitialize(outcome) == "run"

MainAfterInitialize(outcome) ==
    CASE outcome = "true" -> "run"
      [] outcome = "false" -> "exited"
      [] outcome = "raised" -> "exited"

\* ArduinoManager.connect, one pass of its loop: bind, listen and accept for
\* the next channel.  Nothing catches an exception raised here, so it leaves
\* connect and initialize and reaches main's except clause.
connect ==
    /\ CtlStep
    /\ pc["main"] = "initialize"
    /\ connected < NumChannels
    /\ \/ /\ connected' = connected + 1
          /\ UNCHANGED <<pc, exitVia, connectFailed>>
       \/ /\ connectFailed' = TRUE
          /\ pc' = [pc EXCEPT !["main"] = MainAfterInitialize("raised")]
          /\ exitVia' = IF MainAfterInitialize("raised") = "exited"
                        THEN "error" ELSE exitVia
          /\ UNCHANGED connected
    /\ UNCHANGED <<WAVE_FUNCTION, ARDUINO_IDS, EXPERIMENT_DURATION, running,
                   desired, start_pressures, step, seqT, io, lastCmd,
                   socketsOpen, inExchange, rdSends, sendsAfterStop, zeroSent,
                   nrows, hdf5_path, persisted, mocapStopped, measured,
                   commanded, lastRowZero>>

\* Controller.initialize: connect has accepted every channel and returns True
initialize ==
    /\ CtlStep
    /\ UNCHANGED ctlAux
    /\ pc["main"] = "initialize"
    /\ connected = NumChannels
    /\ socketsOpen' = TRUE
    /\ pc' = [pc EXCEPT !["main"] = MainAfterInitialize("true")]
    /\ UNCHANGED <<WAVE_FUNCTION, ARDUINO_IDS, EXPERIMENT_DURATION, running, desired,
                   start_pressures, step, seqT, io, lastCmd, inExchange, rdSends, sendsAfterStop, zeroSent, nrows,
                   hdf5_path, persisted, mocapStopped, exitVia>>

\* Controller.run up to the wait loop: logger.start, mocap.start (the pose
\* reader thread), running = True, and the logging, wave and progress threads
\* are started.  EXPERIMENT_DURATION is not looked at before the wait loop.
run ==
    /\ CtlStep
    /\ UNCHANGED ctlAux
    /\ pc["main"] = "run"
    /\ hdf5_path' = TRUE
    /\ running' = TRUE
    /\ pc' = [main |-> "wait", wave |-> "wave_start", log |-> "log_loop",
              progress |-> "progress_loop", pose |-> "pose_loop"]
    /\ UNCHANGED <<WAVE_FUNCTION, ARDUINO_IDS, EXPERIMENT_DURATION, desired, start_pressures, step,
                   seqT, io, lastCmd, socketsOpen, inExchange,
                   rdSends, sendsAfterStop, zeroSent, nrows, persisted,
                   mocapStopped, exitVia>>

\* the wait loop of run ends: running is False or EXPERIMENT_DURATION elapsed
\* (a positive duration may have elapsed at any check, a duration of zero or
\* less has elapsed at the first); run calls stop
run_wait_end ==
    /\ CtlStep
    /\ UNCHANGED ctlAux
    /\ pc["main"] = "wait"
    /\ pc' = [pc EXCEPT !["main"] = "stop"]
    /\ UNCHANGED <<WAVE_FUNCTION, ARDUINO_IDS, EXPERIMENT_DURATION, running, desired,
                   start_pressures, step, seqT, io, lastCmd, socketsOpen,
                   inExchange, rdSends, sendsAfterStop,
                   zeroSent, nrows, hdf5_path, persisted, mocapStopped,
                   exitVia>>

\* SIGINT while run waits: the handler calls sys.exit(0); SystemExit is no
\* Exception, so main's except clause lets it pass and the process exits
sigint_handler ==
    /\ CtlStep
    /\ UNCHANGED ctlAux
    /\ pc["main"] = "wait"
    /\ pc' = [pc EXCEPT !["main"] = "exited"]
    /\ exitVia' = "sigint"
    /\ UNCHANGED <<WAVE_FUNCTION, ARDUINO_IDS, EXPERIMENT_DURATION, running, desired,
                   start_pressures, step, seqT, io, lastCmd, socketsOpen,
                   inExchange, rdSends, sendsAfterStop,
                   zeroSent, nrows, hdf5_path, persisted, mocapStopped>>

(***************************************************************************)
(* Controller.stop and Controller.graceful_rampdown                        *)
(***************************************************************************)
\* stop: running = False, then time.sleep(0.1)
stop ==
    /\ CtlStep
    /\ UNCHANGED ctlAux
    /\ pc["main"] = "stop"
    /\ running' = FALSE
    /\ pc' = [pc EXCEPT !["main"] = "rd_capture"]
    /\ UNCHANGED <<WAVE_FUNCTION, ARDUINO_IDS, EXPERIMENT_DURATION, desired, start_pressures, step,
                   seqT, io, lastCmd, socketsOpen, inExchange,
                   rdSends, sendsAfterStop, zeroSent, nrows, hdf5_path,
                   persisted, mocapStopped, exitVia>>

\* start_pressures = self.desired.copy()
rampdown_capture ==
    /\ CtlStep
    /\ UNCHANGED ctlAux
    /\ pc["main"] = "rd_capture"
    /\ start_pressures' = desired
    /\ step' = 0
    /\ pc' = [pc EXCEPT !["main"] = "rd_loop"]
    /\ UNCHANGED <<WAVE_FUNCTION, ARDUINO_IDS, EXPERIMENT_DURATION, running, desired, seqT, io,
                   lastCmd, socketsOpen, inExchange, rdSends,
                   sendsAfterStop, zeroSent, nrows, hdf5_path, persisted,
                   mocapStopped, exitVia>>

\* start_pressures[i] * (1.0 - step / steps)
Interpolate(p, s) == (p * (RAMPDOWN_STEPS - s)) \div RAMPDOWN_STEPS

\* for step in range(steps + 1): if not self.running: break; interpolate; send_all
rampdown_loop ==
    /\ CtlStep
    /\ UNCHANGED ctlAux
    /\ pc["main"] = "rd_loop"
    /\ IF step <= RAMPDOWN_STEPS /\ running
       THEN /\ desired' = [i \in Channels |-> Interpolate(start_pressures[i], step)]
            /\ step' = step + 1
            /\ pc' = [pc EXCEPT !["main"] = "rd_loop_send"]
       ELSE /\ pc' = [pc EXCEPT !["main"] = "rd_zero"]
            /\ UNCHANGED <<desired, step>>
    /\ UNCHANGED <<WAVE_FUNCTION, ARDUINO_IDS, EXPERIMENT_DURATION, running, start_pressures, seqT,
                   io, lastCmd, socketsOpen, inExchange,
                   rdSends, sendsAfterStop, zeroSent, nrows, hdf5_path,
                   persisted, mocapStopped, exitVia>>

\* self.desired[i] = 0.0 for every channel, then the final send_all
rampdown_zero ==
    /\ CtlStep
    /\ UNCHANGED ctlAux
    /\ pc["main"] = "rd_zero"
    /\ desired' = Zeros
    /\ pc' = [pc EXCEPT !["main"] = "rd_final_send"]
    /\ UNCHANGED <<WAVE_FUNCTION, ARDUINO_IDS, EXPERIMENT_DURATION, running, start_pressures, step,
                   seqT, io, lastCmd, socketsOpen, inExchange,
                   rdSends, sendsAfterStop, zeroSent, nrows, hdf5_path,
                   persisted, mocapStopped, exitVia>>

graceful_rampdown == rampdown_capture \/ rampdown_loop \/ rampdown_zero

\* self.mocap.stop(), then the description prompt
mocap_stop ==
    /\ CtlStep
    /\ UNCHANGED ctlAux
    /\ pc["main"] = "mocap_stop"
    /\ mocapStopped' = TRUE
    /\ pc' = [pc EXCEPT !["main"] = "logger_stop"]
    /\ UNCHANGED <<WAVE_FUNCTION, ARDUINO_IDS, EXPERIMENT_DURATION, running, desired,
                   start_pressures, step, seqT, io, lastCmd, socketsOpen,
                   inExchange, rdSends, sendsAfterStop,
                   zeroSent, nrows, hdf5_path, persisted, exitVia>>

\* DataLogger.stop: returns at once on an empty buffer; otherwise writes the
\* experiment group, its data and its metadata attributes in one block
logger_stop ==
    /\ CtlStep
    /\ UNCHANGED ctlAux
    /\ pc["main"] = "logger_stop"
    /\ persisted' = (hdf5_path /\ nrows > 0)
    /\ pc' = [pc EXCEPT !["main"] = "cleanup"]
    /\ UNCHANGED <<WAVE_FUNCTION, ARDUINO_IDS, EXPERIMENT_DURATION, running, desired,
                   start_pressures, step, seqT, io, lastCmd, socketsOpen,
                   inExchange, rdSends, sendsAfterStop,
                   zeroSent, nrows, hdf5_path, mocapStopped, exitVia>>

\* ArduinoManager.cleanup closes every socket
cleanup ==
    /\ CtlStep
    /\ UNCHANGED ctlAux
    /\ pc["main"] = "cleanup"
    /\ socketsOpen' = FALSE
    /\ pc' = [pc EXCEPT !["main"] = "stop_done"]
    /\ UNCHANGED <<WAVE_FUNCTION, ARDUINO_IDS, EXPERIMENT_DURATION, running, desired,
                   start_pressures, step, seqT, io, lastCmd, inExchange, rdSends, sendsAfterStop, zeroSent, nrows,
                   hdf5_path, persisted, mocapStopped, exitVia>>

\* stop and run return, main returns 0 and the process exits
main_return ==
    /\ CtlStep
    /\ UNCHANGED ctlAux
    /\ pc["main"] = "stop_done"
    /\ pc' = [pc EXCEPT !["main"] = "exited"]
    /\ exitVia' = "return"
    /\ UNCHANGED <<WAVE_FUNCTION, ARDUINO_IDS, EXPERIMENT_DURATION, running, desired,
                   start_pressures, step, seqT, io, lastCmd, socketsOpen,
                   inExchange, rdSends, sendsAfterStop,
                   zeroSent, nrows, hdf5_path, persisted, mocapStopped>>

(***************************************************************************)
(* The wave routines of main.py, run by Controller._wave_loop              *)
(***************************************************************************)
circular_WAVE_CENTER == 1 * PSI
circular_WAVE_AMPLITUDE == 2 * PSI
axial_WAVE_CENTER == 5 * PSI
axial_WAVE_AMPLITUDE == 3 * PSI
axial_HOLD == 2 * PSI
elliptical_WAVE_CENTER == 3 * PSI
elliptical_WAVE_AMPLITUDE == 2 * PSI

\* a write that stores the raw value
NoClamp(lo, hi, p) == p

\* max(lo, min(hi, p))
Clamp(lo, hi, p) == Max(lo, Min(hi, p))

\* circular: channel i (0-based) at quarter sample n; phi = phases[(i - 1) % 4]
circular_p(i, n) ==
    Clamp(0, 100 * PSI,
          circular_WAVE_CENTER + circular_WAVE_AMPLITUDE * SinQ(n + ((i - 1) % 4)))

\* elliptical: amp = WAVE_AMPLITUDE if i % 2 == 0 else WAVE_AMPLITUDE * 0.5
elliptical_p(i, n) ==
    Clamp(0, 100 * PSI,
          elliptical_WAVE_CENTER
            + (IF i % 2 = 0 THEN elliptical_WAVE_AMPLITUDE
                            ELSE elliptical_WAVE_AMPLITUDE \div 2) * SinQ(n + (i % 4)))

\* axial: Arduino 7 (index 2)
axial_p(n) == Clamp(0, 10 * PSI, axial_WAVE_CENTER + axial_WAVE_AMPLITUDE * SinQ(n))

WaveUnchanged == UNCHANGED <<WAVE_FUNCTION, ARDUINO_IDS, EXPERIMENT_DURATION, running, start_pressures,
                             step, io, lastCmd, socketsOpen, inExchange, rdSends,
                             zeroSent, nrows, hdf5_path, persisted, mocapStopped,
                             exitVia>>

\* circular: the initial send_all (then time.sleep(5))
circular_start ==
    /\ CtlStep
    /\ UNCHANGED ctlAux
    /\ pc["wave"] = "wave_start"
    /\ WAVE_FUNCTION = "circular"
    /\ pc' = [pc EXCEPT !["wave"] = "c_init_send"]
    /\ BeginSend
    /\ UNCHANGED <<desired, seqT>>
    /\ WaveUnchanged

\* while controller.running:
circular_loop ==
    /\ CtlStep
    /\ UNCHANGED ctlAux
    /\ pc["wave"] = "c_loop"
    /\ pc' = [pc EXCEPT !["wave"] = IF running THEN "c_body" ELSE "wave_ret"]
    /\ UNCHANGED <<desired, seqT, sendsAfterStop>>
    /\ WaveUnchanged

\* the loop body: every channel is written, then send_all
circular_body ==
    /\ CtlStep
    /\ UNCHANGED ctlAux
    /\ pc["wave"] = "c_body"
    /\ \E n \in SessionSamples :
          desired' = [c \in Channels |-> circular_p(c - 1, n)]
    /\ pc' = [pc EXCEPT !["wave"] = "c_send"]
    /\ BeginSend
    /\ UNCHANGED seqT
    /\ WaveUnchanged

circular == circular_start \/ circular_loop \/ circular_body

\* axial: the initial pressures and the initial send_all (then time.sleep(5))
axial_start ==
    /\ CtlStep
    /\ UNCHANGED ctlAux
    /\ pc["wave"] = "wave_start"
    /\ WAVE_FUNCTION = "axial"
    /\ desired' = [desired EXCEPT ![1] = axial_HOLD, ![2] = axial_HOLD,
                                  ![3] = axial_WAVE_CENTER - axial_WAVE_AMPLITUDE,
                                  ![4] = axial_HOLD]
    /\ pc' = [pc EXCEPT !["wave"] = "a_init_send"]
    /\ BeginSend
    /\ UNCHANGED seqT
    /\ WaveUnchanged

axial_loop ==
    /\ CtlStep
    /\ UNCHANGED ctlAux
    /\ pc["wave"] = "a_loop"
    /\ pc' = [pc EXCEPT !["wave"] = IF running THEN "a_body" ELSE "wave_ret"]
    /\ UNCHANGED <<desired, seqT, sendsAfterStop>>
    /\ WaveUnchanged

axial_body ==
    /\ CtlStep
    /\ UNCHANGED ctlAux
    /\ pc["wave"] = "a_body"
    /\ \E n \in SessionSamples :
          desired' = [desired EXCEPT ![2] = axial_HOLD, ![4] = axial_HOLD,
                                     ![3] = axial_p(n)]
    /\ pc' = [pc EXCEPT !["wave"] = "a_send"]
    /\ BeginSend
    /\ UNCHANGED seqT
    /\ WaveUnchanged

axial == axial_start \/ axial_loop \/ axial_body

elliptical_start ==
    /\ CtlStep
    /\ UNCHANGED ctlAux
    /\ pc["wave"] = "wave_start"
    /\ WAVE_FUNCTION = "elliptical"
    /\ pc' = [pc EXCEPT !["wave"] = "e_loop"]
    /\ UNCHANGED <<desired, seqT, sendsAfterStop>>
    /\ WaveUnchanged

elliptical_loop ==
    /\ CtlStep
    /\ UNCHANGED ctlAux
    /\ pc["wave"] = "e_loop"
    /\ pc' = [pc EXCEPT !["wave"] = IF running THEN "e_body" ELSE "wave_ret"]
    /\ UNCHANGED <<desired, seqT, sendsAfterStop>>
    /\ WaveUnchanged

elliptical_body ==
    /\ CtlStep
    /\ UNCHANGED ctlAux
    /\ pc["wave"] = "e_body"
    /\ \E n \in SessionSamples :
          desired' = [c \in Channels |-> elliptical_p(c - 1, n)]
    /\ pc' = [pc EXCEPT !["wave"] = "e_send"]
    /\ BeginSend
    /\ UNCHANGED seqT
    /\ WaveUnchanged

elliptical == elliptical_start \/ elliptical_loop \/ elliptical_body

idx_4 == IndexOf(ARDUINO_IDS, 4)
idx_8 == IndexOf(ARDUINO_IDS, 8)

\* sequential: ARDUINO_IDS.index(4) and .index(8); on ValueError it returns;
\* otherwise every desired pressure is set to 0.0
sequential_start ==
    /\ CtlStep
    /\ UNCHANGED ctlAux
    /\ pc["wave"] = "wave_start"
    /\ WAVE_FUNCTION = "sequential"
    /\ IF idx_4 = 0 \/ idx_8 = 0
       THEN /\ pc' = [pc EXCEPT !["wave"] = "wave_ret"]
            /\ UNCHANGED <<desired, seqT>>
       ELSE /\ desired' = Zeros
            /\ seqT' = 0
            /\ pc' = [pc EXCEPT !["wave"] = "s_ramp4"]
    /\ UNCHANGED sendsAfterStop
    /\ WaveUnchanged

\* for t in range(int(target * 20)): desired[idx_4] = min(target, t / 20.0); send_all
sequential_ramp4 ==
    /\ CtlStep
    /\ UNCHANGED ctlAux
    /\ pc["wave"] = "s_ramp4"
    /\ IF seqT < TARGET
       THEN /\ desired' = [desired EXCEPT ![idx_4] = Min(TARGET, seqT)]
            /\ seqT' = seqT + 1
            /\ pc' = [pc EXCEPT !["wave"] = "s_ramp4_send"]
            /\ BeginSend
       ELSE /\ pc' = [pc EXCEPT !["wave"] = "s_loop"]
            /\ UNCHANGED <<desired, seqT, sendsAfterStop>>
    /\ WaveUnchanged

\* while controller.running:
sequential_loop ==
    /\ CtlStep
    /\ UNCHANGED ctlAux
    /\ pc["wave"] = "s_loop"
    /\ pc' = [pc EXCEPT !["wave"] = IF running THEN "s_up" ELSE "wave_ret"]
    /\ seqT' = 0
    /\ UNCHANGED <<desired, sendsAfterStop>>
    /\ WaveUnchanged

\* ramp up Arduino 8, then time.sleep(2.0)
sequential_up ==
    /\ CtlStep
    /\ UNCHANGED ctlAux
    /\ pc["wave"] = "s_up"
    /\ IF seqT < TARGET
       THEN /\ desired' = [desired EXCEPT ![idx_8] = Min(TARGET, seqT)]
            /\ seqT' = seqT + 1
            /\ pc' = [pc EXCEPT !["wave"] = "s_up_send"]
            /\ BeginSend
       ELSE /\ pc' = [pc EXCEPT !["wave"] = "s_down"]
            /\ seqT' = 0
            /\ UNCHANGED <<desired, sendsAfterStop>>
    /\ WaveUnchanged

\* ramp down Arduino 8, then time.sleep(2.0) and: if END_AFTER_ONE_CYCLE: break
sequential_down ==
    /\ CtlStep
    /\ UNCHANGED ctlAux
    /\ pc["wave"] = "s_down"
    /\ IF seqT < TARGET
       THEN /\ desired' = [desired EXCEPT ![idx_8] = Max(0, TARGET - seqT)]
            /\ seqT' = seqT + 1
            /\ pc' = [pc EXCEPT !["wave"] = "s_down_send"]
            /\ BeginSend
       ELSE /\ pc' = [pc EXCEPT !["wave"] =
                         IF END_AFTER_ONE_CYCLE THEN "wave_ret" ELSE "s_loop"]
            /\ UNCHANGED <<desired, seqT, sendsAfterStop>>
    /\ WaveUnchanged

sequential == \/ sequential_start \/ sequential_ramp4 \/ sequential_loop
              \/ sequential_up \/ sequential_down

\* Controller._wave_loop after the routine returned
wave_loop_return ==
    /\ CtlStep
    /\ UNCHANGED ctlAux
    /\ pc["wave"] = "wave_ret"
    /\ running' = IF END_AFTER_ONE_CYCLE THEN FALSE ELSE running
    /\ pc' = [pc EXCEPT !["wave"] = "wave_done"]
    /\ UNCHANGED <<WAVE_FUNCTION, ARDUINO_IDS, EXPERIMENT_DURATION, desired, start_pressures, step,
                   seqT, io, lastCmd, socketsOpen, inExchange, rdSends,
                   sendsAfterStop, zeroSent, nrows, hdf5_path, persisted,
                   mocapStopped, exitVia>>

(***************************************************************************)
(* Controller._log_loop                                                    *)
(***************************************************************************)
\* while self.running: self.logger.log(...); time.sleep(0.01)
log_loop ==
    /\ CtlStep
    /\ UNCHANGED <<measured, connected, connectFailed, commanded>>
    /\ pc["log"] = "log_loop"
    /\ IF WhileRunning /\ hdf5_path
       THEN /\ nrows' = Min(nrows + 1, MaxRows)
            /\ lastRowZero' = (desired = Zeros)
       ELSE UNCHANGED <<nrows, lastRowZero>>
    /\ pc' = [pc EXCEPT !["log"] = IF WhileRunning THEN "log_loop" ELSE "log_done"]
    /\ UNCHANGED <<WAVE_FUNCTION, ARDUINO_IDS, EXPERIMENT_DURATION, running, desired,
                   start_pressures, step, seqT, io, lastCmd, socketsOpen,
                   inExchange, rdSends, sendsAfterStop, zeroSent, hdf5_path,
                   persisted, mocapStopped, exitVia>>

(***************************************************************************)
(* Controller._progress_loop and MocapManager._loop                        *)
(***************************************************************************)
\* while self.running: report the progress; time.sleep(1.0)
progress_loop ==
    /\ CtlStep
    /\ UNCHANGED ctlAux
    /\ pc["progress"] = "progress_loop"
    /\ ~WhileRunning
    /\ pc' = [pc EXCEPT !["progress"] = "progress_done"]
    /\ UNCHANGED <<WAVE_FUNCTION, ARDUINO_IDS, EXPERIMENT_DURATION, running,
                   desired, start_pressures, step, seqT, io, lastCmd,
                   socketsOpen, inExchange, rdSends, sendsAfterStop, zeroSent,
                   nrows, hdf5_path, persisted, mocapStopped, exitVia>>

\* MocapManager._loop: while self.running (cleared by MocapManager.stop):
\* a non-blocking recv inside try / except, then time.sleep(0.01)
pose_loop ==
    /\ CtlStep
    /\ UNCHANGED ctlAux
    /\ pc["pose"] = "pose_loop"
    /\ mocapStopped
    /\ pc' = [pc EXCEPT !["pose"] = "pose_done"]
    /\ UNCHANGED <<WAVE_FUNCTION, ARDUINO_IDS, EXPERIMENT_DURATION, running,
                   desired, start_pressures, step, seqT, io, lastCmd,
                   socketsOpen, inExchange, rdSends, sendsAfterStop, zeroSent,
                   nrows, hdf5_path, persisted, mocapStopped, exitVia>>

(***************************************************************************)
(* ArduinoManager.send_pressure, byte by byte, inside one send_all call    *)
(***************************************************************************)
\* a narrower clause, "except Exception:", which lets SystemExit pass
CatchesExceptionOnly(kind) == kind # "SystemExit"

\* the bare except clause catches every exception
Catches(kind) == TRUE

SpInit ==
    /\ spPc = "call"
    /\ spIdx = 1
    /\ spData = <<>>
    /\ spFrame = Frame1
    /\ spLastRecv = -1
    /\ spPeerClosed \in [Channels -> BOOLEAN]
    /\ spExcKind = "none"
    /\ spMeasured = [i \in Channels |-> Fallback]
    /\ spVia = [i \in Channels |-> "none"]
    /\ spRaised = FALSE

\* the values these variables keep under the other specifications
SpIdle ==
    /\ spPc = "done"
    /\ spIdx = 1
    /\ spData = <<>>
    /\ spFrame = Frame1
    /\ spLastRecv = -1
    /\ spPeerClosed = [i \in Channels |-> FALSE]
    /\ spExcKind = "none"
    /\ spMeasured = [i \in Channels |-> Fallback]
    /\ spVia = [i \in Channels |-> "none"]
    /\ spRaised = FALSE

\* self.client_sockets[idx].send(struct.pack("f", pressure)): it succeeds and
\* the actuator prepares its answer, or an exception is raised
send_pressure_send ==
    /\ spPc = "call"
    /\ spIdx \in Channels
    /\ \/ /\ \E f \in FrameSamples : spFrame' = f
          /\ spPc' = "recv"
          /\ spExcKind' = "none"
       \/ /\ \E k \in ExcKinds : spExcKind' = k
          /\ spPc' = "except"
          /\ UNCHANGED spFrame
    /\ spData' = <<>>
    /\ spLastRecv' = -1
    /\ UNCHANGED <<spIdx, spPeerClosed, spMeasured, spVia, spRaised>>
    /\ SpStep

\* while len(data) < 8: data += recv(8 - len(data)).  recv returns between 1
\* and 8 - len(data) bytes, or b"" once the peer has closed, or raises
send_pressure_recv ==
    /\ spPc = "recv"
    /\ Len(spData) < FRAME_SIZE
    /\ \/ /\ ~spPeerClosed[spIdx]
          /\ \E k \in 1..(FRAME_SIZE - Len(spData)) :
                /\ spData' = spData \o SubSeq(spFrame, Len(spData) + 1, Len(spData) + k)
                /\ spLastRecv' = k
          /\ UNCHANGED <<spPc, spExcKind>>
       \/ /\ spPeerClosed[spIdx]
          /\ spData' = spData
          /\ spLastRecv' = 0
          /\ UNCHANGED <<spPc, spExcKind>>
       \/ /\ \E k \in ExcKinds : spExcKind' = k
          /\ spPc' = "except"
          /\ UNCHANGED <<spData, spLastRecv>>
    /\ UNCHANGED <<spIdx, spFrame, spPeerClosed, spMeasured, spVia, spRaised>>
    /\ SpStep

\* the frame is complete: unpack, calibrate, return sensors; send_all stores
\* the list in measured[i] and goes on to the next channel
send_pressure_return ==
    /\ spPc = "recv"
    /\ Len(spData) = FRAME_SIZE
    /\ spMeasured' = [spMeasured EXCEPT ![spIdx] = Sensors(spData)]
    /\ spVia' = [spVia EXCEPT ![spIdx] = "frame"]
    /\ spIdx' = spIdx + 1
    /\ spPc' = "call"
    /\ UNCHANGED <<spData, spFrame, spLastRecv, spPeerClosed, spExcKind, spRaised>>
    /\ SpStep

\* except: return [0.0] * 4
send_pressure_except ==
    /\ spPc = "except"
    /\ IF Catches(spExcKind)
       THEN /\ spMeasured' = [spMeasured EXCEPT ![spIdx] = Fallback]
            /\ spVia' = [spVia EXCEPT ![spIdx] = "except"]
            /\ spIdx' = spIdx + 1
            /\ spPc' = "call"
            /\ UNCHANGED spRaised
       ELSE /\ spRaised' = TRUE
            /\ spPc' = "raised"
            /\ UNCHANGED <<spMeasured, spVia, spIdx>>
    /\ UNCHANGED <<spData, spFrame, spLastRecv, spPeerClosed, spExcKind>>
    /\ SpStep

\* for i in range(len(ARDUINO_IDS)) is exhausted: send_all returns
send_all_return ==
    /\ spPc = "call"
    /\ spIdx = NumChannels + 1
    /\ spPc' = "done"
    /\ UNCHANGED <<spIdx, spData, spFrame, spLastRecv, spPeerClosed, spExcKind,
                   spMeasured, spVia, spRaised>>
    /\ SpStep

\* an actuator closes its connection
peer_close ==
    /\ spPc \in {"call", "recv", "except"}
    /\ \E i \in Channels :
          /\ ~spPeerClosed[i]
          /\ spPeerClosed' = [spPeerClosed EXCEPT ![i] = TRUE]
    /\ UNCHANGED <<spPc, spIdx, spData, spFrame, spLastRecv, spExcKind,
                   spMeasured, spVia, spRaised>>
    /\ SpStep

(***************************************************************************)
(* vtech.py: configuration and construction                                *)
(***************************************************************************)
\* ControlConfig.DEFAULT_ARDUINO_IDS
NArs == <<8>>
VtChannels == 1..Len(NArs)
VtZeros == [i \in VtChannels |-> 0]

\* the values these variables keep under the other specifications
VtIdle ==
    /\ vtProgram = "none"
    /\ vtPc = "idle"
    /\ th1_flag = TRUE
    /\ th2_flag = TRUE
    /\ stopPc = "idle"
    /\ flag_reset = TRUE
    /\ pd_array_1 = VtZeros
    /\ vtLastCmd = VtZeros
    /\ vtGlob = 0
    /\ vtCycle = 0
    /\ vtTick = 0
    /\ vtEnd = FALSE
    /\ sqPhase = "none"
    /\ roundsAfterStop = 0
    /\ nonzeroCommanded = FALSE
    /\ th3_flag = TRUE
    /\ run_event = TRUE
    /\ th2Pc = "idle"
    /\ th3Pc = "idle"
    /\ received_count = 0

(***************************************************************************)
(* The session of main.py                                                  *)
(***************************************************************************)
(***************************************************************************)
(* The port binding, pose reader and logging models: configuration and the *)
(* values their variables keep under the other specifications              *)
(***************************************************************************)
\* ARDUINO_PORTS
ARDUINO_PORTS == <<10001, 10002, 10003, 10004, 10005, 10006, 10007, 10008>>

\* MOCAP_DATA_SIZE
MOCAP_DATA_SIZE == 21

\* [0.0] * MOCAP_DATA_SIZE
McZeros == [i \in 1..MOCAP_DATA_SIZE |-> 0]

\* a session with two channels, ARDUINO_IDS = [7, 8]
LgChannels == 1..2

PtIdle ==
    /\ ptIds = <<>>
    /\ ptIdx = 1
    /\ ptBound = <<>>
    /\ ptError = "none"

\* nothing received yet
NoRecv == [kind |-> "none", tag |-> 0, n |-> 0]

McIdle ==
    /\ mcData = McZeros
    /\ mcLast = <<>>
    /\ mcRunning = FALSE
    /\ mcPc = "idle"
    /\ mcRecv = NoRecv
    /\ mcValid = <<>>
    /\ mcGot = McZeros

LgIdle ==
    /\ lgDesired = [i \in LgChannels |-> 0]
    /\ lgMeasured = [i \in LgChannels |-> Fallback]
    /\ lgMocap = McZeros
    /\ data_buffer = <<>>
    /\ lgAtCall = <<>>

\* no group name yet
NoName == [prefix |-> "", field |-> <<>>, rest |-> ""]

StIdle ==
    /\ USE_MOCAP = TRUE
    /\ MOCAP_AVAILABLE = TRUE
    /\ stIds = ARDUINO_IDS_SHIPPED
    /\ h5file = <<>>
    /\ stPath = FALSE
    /\ exp_group_name = NoName
    /\ stBuffer = <<>>
    /\ stStops = 0
    /\ stRaised = FALSE
    /\ stFirst = <<>>

\* no file name yet
NoFile == [stem |-> "", ar |-> 0, field |-> <<>>, ext |-> ""]

CsvIdle ==
    /\ csvDir = {}
    /\ file_name = NoFile
    /\ csvBefore = {}

WvIdle ==
    /\ wvRoutine = "none"
    /\ wvT = 0
    /\ wvI = 0
    /\ wvDesired = Zeros

\* generators[channel] is None
NoGenerator == [type |-> "none", amplitude |-> 0, offset |-> 0, custom |-> "none"]

WgIdle ==
    /\ wgGen = NoGenerator
    /\ wgRunning = FALSE
    /\ wgT = 0
    /\ wgPd = 0

TgIdle ==
    /\ tgRoutine = "none"
    /\ tgBounds = [lower |-> 0, upper |-> 0]
    /\ tgN = 0
    /\ tgT = 0
    /\ tgPd = <<>>
    /\ tgTrace = <<>>

\* a measured row: a list of values, or None
PmList(vals) == [kind |-> "list", vals |-> vals]
PmNone == [kind |-> "None", vals |-> <<>>]

AsIdle ==
    /\ asPc = "idle"
    /\ asStream = <<>>
    /\ asPeerCloses = FALSE
    /\ received_data = <<>>
    /\ asPm = PmList(Fallback)

PqIdle ==
    /\ pqPhase = "idle"
    /\ pqTick = 0
    /\ pqPd = <<0, 0, 0>>
    /\ pqStart = 0
    /\ pqCycle = 0
    /\ pqFlags = FALSE
    /\ pqEnded = FALSE
    /\ pqSent = <<>>

RpIdle ==
    /\ rpNArs = <<>>
    /\ rpBounds = [up_rate |-> 1, down_rate |-> 1, upper_bound |-> 0,
                   lower_bound |-> 0]
    /\ rpPd = <<>>
    /\ rpPart = "idle"
    /\ rpI = 0
    /\ rpPc = "idle"
    /\ rpT = 0
    /\ rpFlag = FALSE
    /\ rpSent = <<>>

MsIdle ==
    /\ msRoutine = "none"
    /\ msNArs = <<>>
    /\ msPd = <<>>
    /\ msPc = "idle"
    /\ msI = 0
    /\ msCounter = 0
    /\ msT = 0
    /\ msFlags = FALSE
    /\ msEnded = FALSE
    /\ msWarned = FALSE
    /\ msWritten = {}
    /\ msExchanged = {}

ClIdle ==
    /\ clManager = "none"
    /\ clSockets = <<>>
    /\ clFaulty = {}
    /\ clPc = "idle"
    /\ clI = 0
    /\ clAttempted = {}
    /\ clCalls = 0
    /\ clPropagated = FALSE
    /\ clTermed = FALSE

SvIdle ==
    /\ svRunning = FALSE
    /\ svPath = FALSE
    /\ svBuffer = 0
    /\ svLogPc = "idle"
    /\ svStopPc = "idle"
    /\ svArray = -1
    /\ svRows = -1
    /\ svSampleCount = -1

GnIdle ==
    /\ gnGen = NoGenerator
    /\ gnRunning = FALSE
    /\ gnStartTime = -1
    /\ gnNow = 0
    /\ gnRet = 0
    /\ gnPhase = "idle"
    /\ gnCallPhase = "none"
    /\ gnCallElapsed = 0

LkIdle ==
    /\ lkPc = "idle"
    /\ lkRunning = FALSE
    /\ lkN = 0
    /\ lkLeakAt = <<-1, -1, -1, -1>>
    /\ lkStable = FALSE
    /\ lkBaseline = <<>>
    /\ lkDetected = FALSE
    /\ lkSensor = -1
    /\ lkTime = -1

ExtIdle == StIdle /\ CsvIdle /\ WvIdle /\ WgIdle /\ TgIdle /\ AsIdle /\ PqIdle
           /\ LkIdle
           /\ GnIdle
           /\ SvIdle
           /\ ClIdle
           /\ MsIdle
           /\ RpIdle

AuxIdle == PtIdle /\ McIdle /\ LgIdle /\ ExtIdle

Init == CtlInit /\ SpIdle /\ VtIdle /\ AuxIdle

Next ==
    \/ connect
    \/ initialize
    \/ run
    \/ run_wait_end
    \/ sigint_handler
    \/ stop
    \/ graceful_rampdown
    \/ mocap_stop
    \/ logger_stop
    \/ cleanup
    \/ main_return
    \/ send_all
    \/ circular
    \/ axial
    \/ elliptical
    \/ sequential
    \/ wave_loop_return
    \/ log_loop

Spec == Init /\ [][Next]_vars

(***************************************************************************)
(* Claims about the main.py session (specification Spec)                   *)
(***************************************************************************)
RampdownLabels == {"rd_loop", "rd_loop_send", "rd_zero", "rd_final_send"}
AfterRampdown == {"mocap_stop", "logger_stop", "cleanup", "stop_done"}

\* the wave thread will call send_all no more
WaveFinishedSending ==
    \/ pc["wave"] \in {"wave_ret", "wave_done"}
    \/ pc["wave"] \in {"c_loop", "a_loop", "e_loop", "s_loop"} /\ ~running

\* C1: when stop() runs while some channel's desired pressure is above zero,
\* graceful_rampdown calls send_all at every step 0..steps of the linear
\* interpolation before the final zero command: once the rampdown is over it
\* has made steps + 2 send_all calls, not a single one.
C1_RampdownInterpolates ==
    (pc["main"] \in AfterRampdown /\ \E i \in Channels : start_pressures[i] > 0)
        => rdSends = RAMPDOWN_STEPS + 2

\* C2: a SIGINT that arrives while run() waits takes the shutdown path of
\* normal completion: when the process has exited, stop() has sent a zero
\* command to every actuator and has closed the sockets.
C2_SigintShutsDown ==
    (pc["main"] = "exited" /\ exitVia = "sigint")
        => /\ \A i \in Channels : zeroSent[i]
           /\ ~socketsOpen

\* C3: at the moment stop() closes the actuator sockets every desired pressure
\* is 0 and the last command every actuator received is 0.
C3_ZeroWhenSocketsClose ==
    pc["main"] = "cleanup" => (desired = Zeros /\ lastCmd = Zeros)

\* C6: no two threads are inside an exchange on the same actuator socket at the
\* same time, and the wave thread has completed its last send_all before
\* graceful_rampdown issues its first.
C6_ExchangesOnOneThread ==
    /\ ~(inExchange["main"] # 0 /\ inExchange["main"] = inExchange["wave"])
    /\ pc["main"] \in {"rd_loop_send", "rd_final_send"} => WaveFinishedSending

\* C8: once running is False a wave routine begins at most one more send_all
\* before it returns.
C8_AtMostOneSendAfterStop == sendsAfterStop <= 1

\* C10: stop() runs its steps in order, each after the one before is complete:
\* the wave thread has stopped, the rampdown runs, the pose feed is stopped,
\* the logger is stopped, the sockets are closed, the metadata is finalized.
C10_ShutdownOrder ==
    /\ pc["main"] \in RampdownLabels => pc["wave"] = "wave_done"
    /\ mocapStopped => pc["main"] \in {"logger_stop", "cleanup", "stop_done", "exited"}
    /\ pc["main"] \in {"cleanup", "stop_done"} => mocapStopped
    /\ persisted => ~socketsOpen

\* C11: after a complete session (initialize, run, stop) the persisted table
\* has at least one row and the pd_* values of its final row are all 0.0.
C11_FinalRowIsZero ==
    pc["main"] = "stop_done" => (persisted /\ lastRowZero)

\* C15: if connecting a channel fails, the session is aborted: run is never
\* entered, no worker thread is started and no pressure command is sent to
\* any actuator, the channels already connected included.
C15_ConnectFailureAborts ==
    connectFailed =>
        /\ pc = [main |-> "exited", wave |-> "idle", log |-> "idle",
                 progress |-> "idle", pose |-> "idle"]
        /\ exitVia = "error"
        /\ ~running
        /\ ~hdf5_path
        /\ ~commanded
        /\ lastCmd = Zeros

\* a channel failed to connect after others had been accepted
C15_Witness == connectFailed /\ connected >= 1

\* C16: with an experiment duration of zero or less the session fails fast:
\* no worker thread is started and no pressure command is sent.
C16_ZeroDurationFailsFast ==
    EXPERIMENT_DURATION <= 0 =>
        /\ pc["wave"] = "idle"
        /\ pc["log"] = "idle"
        /\ pc["progress"] = "idle"
        /\ ~commanded

\* C19: in every reachable state desired has one entry per configured channel
\* and measured has one row per channel with exactly 4 values, also after
\* ticks in which an exchange failed.
C19_ShapesKept ==
    /\ DOMAIN desired = 1..Len(ARDUINO_IDS)
    /\ DOMAIN measured = 1..Len(ARDUINO_IDS)
    /\ \A i \in DOMAIN measured : DOMAIN measured[i] = 1..4

\* the wave routine has written desired, the rampdown has run, and an exchange
\* on channel 1 failed on the closed socket
C19_Witness ==
    /\ commanded
    /\ ~socketsOpen
    /\ rdSends >= 1
    /\ desired # Zeros
    /\ measured[1] = Fallback
    /\ \E i \in Channels : measured[i] = Sensors(SessionFrame)

(***************************************************************************)
(* The session while EXPERIMENT_DURATION has not elapsed and no signal      *)
(* arrives, under fair scheduling of the wave thread (specification        *)
(* SpecCycle)                                                              *)
(***************************************************************************)
\* the steps of the wave thread
wave_thread ==
    \/ circular \/ axial \/ elliptical \/ sequential \/ wave_loop_return
    \/ SockSend("wave") \/ SockRecv("wave") \/ SendAllReturn("wave")

\* the shipped duration; sequential with the channel list it needs
InitLive ==
    /\ Init
    /\ EXPERIMENT_DURATION = EXPERIMENT_DURATION_SHIPPED
    /\ WAVE_FUNCTION = "sequential" => ARDUINO_IDS = ARDUINO_IDS_SEQ

\* the wait loop of run ends because running is False
run_wait_not_running == ~running /\ run_wait_end

NextCycle ==
    \/ connect
    \/ initialize
    \/ run
    \/ run_wait_not_running
    \/ stop
    \/ graceful_rampdown
    \/ mocap_stop
    \/ logger_stop
    \/ cleanup
    \/ main_return
    \/ send_all
    \/ circular
    \/ axial
    \/ elliptical
    \/ sequential
    \/ wave_loop_return
    \/ log_loop

\* the wave thread, once started, is scheduled again and again
SpecCycle == InitLive /\ [][NextCycle]_vars /\ WF_vars(wave_thread)

\* C12: with END_AFTER_ONE_CYCLE True the configured routine returns on its
\* own, for every routine in WAVES: the wave thread eventually leaves the
\* routine and _wave_loop, without EXPERIMENT_DURATION having to elapse.
C12_RoutineReturnsOnItsOwn ==
    (pc["wave"] = "wave_start") ~> (pc["wave"] = "wave_done")

(***************************************************************************)
(* The session with every worker thread (specification SpecWorkers)        *)
(***************************************************************************)
NextWorkers == Next \/ progress_loop \/ pose_loop

SpecWorkers == InitLive /\ [][NextWorkers]_vars

\* Controller.stop has returned and the process is alive
StopReturned == pc["main"] = "stop_done" /\ Alive

\* steps a send_all call of thread t still has to take
SendRank(t) == 2 * (NumChannels + 1 - io[t]) - (IF inExchange[t] # 0 THEN 1 ELSE 0)

\* more than any SendRank
RankUnit == 2 * NumChannels + 2

\* a ramp of sequential at step seqT, between two send_all calls and inside one
RampRank(base) == base + (TARGET - seqT) * RankUnit + (RankUnit - 1)
RampSendRank(base) == base + (TARGET - seqT + 1) * RankUnit + SendRank("wave")

DownBase == 3 + RankUnit
UpBase == DownBase + (TARGET + 2) * RankUnit
Ramp4Base == UpBase + (TARGET + 2) * RankUnit

\* a bound on the steps the wave thread can still take once running is False
WaveRank ==
    LET l == pc["wave"]
    IN  CASE l \in {"idle", "wave_done"} -> 0
          [] l = "wave_ret" -> 1
          [] l \in {"c_loop", "a_loop", "e_loop", "s_loop"} -> 2
          [] l \in {"c_init_send", "a_init_send", "c_send", "a_send", "e_send"} ->
                3 + SendRank("wave")
          [] l \in {"c_body", "a_body", "e_body"} -> 3 + RankUnit
          [] l = "s_down" -> RampRank(DownBase)
          [] l = "s_down_send" -> RampSendRank(DownBase)
          [] l = "s_up" -> RampRank(UpBase)
          [] l = "s_up_send" -> RampSendRank(UpBase)
          [] l = "s_ramp4" -> RampRank(Ramp4Base)
          [] l = "s_ramp4_send" -> RampSendRank(Ramp4Base)
          [] l = "wave_start" -> Ramp4Base + (TARGET + 2) * RankUnit

\* a bound on the steps the four worker threads can still take
WorkerRank ==
    WaveRank + (IF pc["log"] = "log_loop" THEN 1 ELSE 0)
             + (IF pc["progress"] = "progress_loop" THEN 1 ELSE 0)
             + (IF pc["pose"] = "pose_loop" THEN 1 ELSE 0)

AllWorkersDone ==
    /\ pc["wave"] = "wave_done"
    /\ pc["log"] = "log_done"
    /\ pc["progress"] = "progress_done"
    /\ pc["pose"] = "pose_done"

\* C13: after Controller.stop has returned, the logging, wave, progress and
\* pose reader threads eventually terminate, for every wave routine: every
\* thread that has not ended can take a step, and every step of a worker
\* thread lowers WorkerRank, which is 0 only when all four have ended.
C13_WorkersTerminate ==
    /\ [](StopReturned =>
            /\ pc["wave"] # "wave_done" => ENABLED <<wave_thread>>_vars
            /\ pc["log"] # "log_done" => ENABLED <<log_loop>>_vars
            /\ pc["progress"] # "progress_done" => ENABLED <<progress_loop>>_vars
            /\ pc["pose"] # "pose_done" => ENABLED <<pose_loop>>_vars
            /\ WorkerRank = 0 => AllWorkersDone)
    /\ [][StopReturned /\ StopReturned' => WorkerRank' < WorkerRank]_vars

\* stop has returned, the wave routine had sent commands, and every worker
\* thread has ended while the process is still alive
C13_Witness == StopReturned /\ AllWorkersDone /\ commanded /\ nrows > 0

(***************************************************************************)
(* One send_all call, byte by byte                                         *)
(***************************************************************************)
\* the main.py session variables under the other specifications
CtlIdle ==
    /\ WAVE_FUNCTION = "axial"
    /\ ARDUINO_IDS = ARDUINO_IDS_SHIPPED
    /\ pc = [main |-> "exited", wave |-> "idle", log |-> "idle",
             progress |-> "idle", pose |-> "idle"]
    /\ running = FALSE
    /\ desired = Zeros
    /\ start_pressures = Zeros
    /\ step = 0
    /\ seqT = 0
    /\ io = [t \in Threads |-> 1]
    /\ lastCmd = Zeros
    /\ socketsOpen = FALSE
    /\ inExchange = [t \in Threads |-> 0]
    /\ rdSends = 0
    /\ sendsAfterStop = 0
    /\ zeroSent = [i \in Channels |-> FALSE]
    /\ nrows = 0
    /\ hdf5_path = FALSE
    /\ persisted = FALSE
    /\ mocapStopped = FALSE
    /\ exitVia = "return"
    /\ EXPERIMENT_DURATION = EXPERIMENT_DURATION_SHIPPED
    /\ measured = [i \in Channels |-> <<0, 0, 0, 0>>]
    /\ connected = 0
    /\ connectFailed = FALSE
    /\ commanded = FALSE
    /\ lastRowZero = FALSE

InitSend == CtlIdle /\ SpInit /\ VtIdle /\ AuxIdle

NextSend ==
    \/ send_pressure_send
    \/ send_pressure_recv
    \/ send_pressure_return
    \/ send_pressure_except
    \/ send_all_return
    \/ peer_close

SpecSend == InitSend /\ [][NextSend]_vars

(***************************************************************************)
(* Claims about send_pressure (specification SpecSend)                     *)
(***************************************************************************)
\* C4: send_pressure terminates whatever the peer does: when recv returns zero
\* bytes before 8 bytes have arrived the call returns the fallback, it does not
\* go back to waiting in the receive loop.
C4_ShortReadReturns == ~(spPc = "recv" /\ spLastRecv = 0)

\* C5: send_pressure never lets an exception reach its caller; after an
\* exception it returns [0.0, 0.0, 0.0, 0.0], after a complete frame the four
\* calibrated values of that frame: its result always has 4 elements.
C5_AlwaysFourValues ==
    /\ ~spRaised
    /\ spPc # "raised"
    /\ \A i \in Channels :
          /\ Len(spMeasured[i]) = 4
          /\ spVia[i] = "except" => spMeasured[i] = <<0, 0, 0, 0>>
          /\ spVia[i] = "frame" => \E f \in FrameSamples : spMeasured[i] = Sensors(f)

\* C5 witness: one send_all call in which one exchange ended in an exception
\* and another delivered a complete frame
C5_Witness ==
    /\ spPc = "done"
    /\ \E i, j \in Channels : spVia[i] = "except" /\ spVia[j] = "frame"

(***************************************************************************)
(* vtech.py: the control thread th_pd_gen and the routines it calls        *)
(***************************************************************************)
\* a timing loop is followed for at most MaxTicks rounds, the trial loop for
\* at most MaxGlob iterations, an outer cycle loop for at most MaxCycles cycles
MaxTicks == 2
MaxGlob == 2
MaxCycles == 2

\* for i in range(6): the triangular cycles of one trial-loop iteration
RAMP_CYCLES == 6

\* th_pd_gen's initial step: array = [seg_1], seg_1 = 5
th_pd_gen_array == [i \in VtChannels |-> 5 * PSI]

\* th_pd_gen's triangular wave: upper_bound = 2.0, lower_bound = 0.0
th_pd_gen_upper_bound == 2 * PSI
th_pd_gen_lower_bound == 0

VtFlags == th1_flag /\ th2_flag

\* a step of the control thread or of the launcher leaves the other models'
\* variables alone
VtStep == UNCHANGED <<ctlVars, spVars, auxVars, vtWorkerVars>>

\* one round of actuator commands: pd_array_1 is written and ard_socket sends
\* every entry to its actuator
Round(vals) ==
    /\ pd_array_1' = vals
    /\ vtLastCmd' = vals
    /\ vtTick' = vtTick + 1
    /\ roundsAfterStop' = IF VtFlags THEN roundsAfterStop ELSE roundsAfterStop + 1
    /\ nonzeroCommanded' = (nonzeroCommanded \/ \E i \in VtChannels : vals[i] # 0)

NoRound == UNCHANGED <<pd_array_1, vtLastCmd, roundsAfterStop, nonzeroCommanded>>

\* the triangular wave at quarter q of its period:
\* t_cycle <= half_period: lower + amplitude * progress, else upper - amplitude * progress
TriangularAt(lower, upper, q) ==
    IF q % 4 <= 2 THEN lower + ((upper - lower) * (q % 4)) \div 2
                  ELSE upper - ((upper - lower) * ((q % 4) - 2)) \div 2

\* th_pd_gen: if self.flag_reset == 1: the initial step response is called
th_pd_gen_start ==
    /\ VtStep
    /\ vtPc = "pd_start"
    /\ vtPc' = IF flag_reset THEN "init_step" ELSE "glob_loop"
    /\ vtTick' = 0
    /\ NoRound
    /\ UNCHANGED <<vtProgram, th1_flag, th2_flag, stopPc, flag_reset, vtGlob,
                   vtCycle, vtEnd, sqPhase>>

\* pres_single_step_response: while th1_flag and th2_flag and (t <= step_time).
\* t0_on_trial was taken just before the call, so the first test of t passes.
\* When the loop ends the call returns and th_pd_gen assigns flag_reset.
pres_single_step_response_loop ==
    /\ VtStep
    /\ vtPc \in {"init_step", "zero_step"}
    /\ \/ /\ VtFlags
          /\ vtTick < MaxTicks
          /\ vtPc' = IF vtPc = "init_step" THEN "init_step_body" ELSE "zero_step_body"
          /\ UNCHANGED flag_reset
       \/ /\ ~VtFlags \/ vtTick >= 1
          /\ vtPc' = IF vtPc = "init_step" THEN "glob_loop" ELSE "pd_exit"
          /\ flag_reset' = (vtPc = "zero_step")
    /\ NoRound
    /\ UNCHANGED <<vtProgram, th1_flag, th2_flag, stopPc, vtGlob, vtCycle,
                   vtTick, vtEnd, sqPhase>>

\* the loop body: pd_array_1[i] = pd_array[i]; ard_socket(...) for every i
pres_single_step_response_body ==
    /\ VtStep
    /\ vtPc \in {"init_step_body", "zero_step_body"}
    /\ Round(IF vtPc = "init_step_body" THEN th_pd_gen_array ELSE VtZeros)
    /\ vtPc' = IF vtPc = "init_step_body" THEN "init_step" ELSE "zero_step"
    /\ UNCHANGED <<vtProgram, th1_flag, th2_flag, stopPc, flag_reset, vtGlob,
                   vtCycle, vtEnd, sqPhase>>

pres_single_step_response ==
    pres_single_step_response_loop \/ pres_single_step_response_body

\* while time.time() - self.t0_on_glob < self.trailDuriation: recv_cpp_socket2().
\* t0_on_glob was taken just before, so the first test passes.
th_pd_gen_while ==
    /\ VtStep
    /\ vtPc = "glob_loop"
    /\ \/ /\ vtGlob < MaxGlob
          /\ vtGlob' = vtGlob + 1
          /\ vtCycle' = 0
          /\ vtPc' = "cycle_for"
       \/ /\ vtGlob >= 1
          /\ vtPc' = "pd_final"
          /\ UNCHANGED <<vtGlob, vtCycle>>
    /\ NoRound
    /\ UNCHANGED <<vtProgram, th1_flag, th2_flag, stopPc, flag_reset, vtTick,
                   vtEnd, sqPhase>>

\* for i in range(6): pres_single_triangular_response(0.1, 2.0, 0.0, duration=20.0)
th_pd_gen_for ==
    /\ VtStep
    /\ vtPc = "cycle_for"
    /\ IF vtCycle < RAMP_CYCLES
       THEN /\ vtCycle' = vtCycle + 1
            /\ vtTick' = 0
            /\ vtPc' = "tri_loop"
       ELSE /\ vtPc' = "glob_loop"
            /\ UNCHANGED <<vtCycle, vtTick>>
    /\ NoRound
    /\ UNCHANGED <<vtProgram, th1_flag, th2_flag, stopPc, flag_reset, vtGlob,
                   vtEnd, sqPhase>>

\* pres_single_triangular_response: while self.th1_flag and self.th2_flag:
\* if (time.time() - t_start) > duration: break
pres_single_triangular_response_loop ==
    /\ VtStep
    /\ vtPc = "tri_loop"
    /\ \/ /\ VtFlags
          /\ vtTick < MaxTicks
          /\ vtPc' = "tri_body"
       \/ /\ ~VtFlags \/ vtTick >= 1
          /\ vtPc' = "cycle_for"
    /\ NoRound
    /\ UNCHANGED <<vtProgram, th1_flag, th2_flag, stopPc, flag_reset, vtGlob,
                   vtCycle, vtTick, vtEnd, sqPhase>>

\* the loop body: the same current_pressure for every channel, then ard_socket
pres_single_triangular_response_body ==
    /\ VtStep
    /\ vtPc = "tri_body"
    /\ \E q \in QuarterSamples :
          Round([i \in VtChannels |->
                    TriangularAt(th_pd_gen_lower_bound, th_pd_gen_upper_bound, q)])
    /\ vtPc' = "tri_loop"
    /\ UNCHANGED <<vtProgram, th1_flag, th2_flag, stopPc, flag_reset, vtGlob,
                   vtCycle, vtEnd, sqPhase>>

pres_single_triangular_response ==
    pres_single_triangular_response_loop \/ pres_single_triangular_response_body

\* after the trial loop: if self.flag_reset == 0: the return-to-zero step
th_pd_gen_final ==
    /\ VtStep
    /\ vtPc = "pd_final"
    /\ vtPc' = IF ~flag_reset THEN "zero_step" ELSE "pd_exit"
    /\ vtTick' = 0
    /\ NoRound
    /\ UNCHANGED <<vtProgram, th1_flag, th2_flag, stopPc, flag_reset, vtGlob,
                   vtCycle, vtEnd, sqPhase>>

\* self.th1_flag = False; self.th2_flag = False; exit()
th_pd_gen_exit ==
    /\ VtStep
    /\ vtPc = "pd_exit"
    /\ th1_flag' = FALSE
    /\ th2_flag' = FALSE
    /\ vtPc' = "pd_done"
    /\ NoRound
    /\ UNCHANGED <<vtProgram, stopPc, flag_reset, vtGlob, vtCycle, vtTick,
                   vtEnd, sqPhase>>

th_pd_gen ==
    \/ th_pd_gen_start
    \/ pres_single_step_response
    \/ th_pd_gen_while
    \/ th_pd_gen_for
    \/ pres_single_triangular_response
    \/ th_pd_gen_final
    \/ th_pd_gen_exit

\* the launcher's KeyboardInterrupt handler: p_client.th1_flag = False, then
\* p_client.th2_flag = False
keyboard_interrupt ==
    /\ VtStep
    /\ \/ /\ stopPc = "armed"
          /\ th1_flag' = FALSE
          /\ stopPc' = "th1_cleared"
          /\ UNCHANGED th2_flag
       \/ /\ stopPc = "th1_cleared"
          /\ th2_flag' = FALSE
          /\ stopPc' = "done"
          /\ UNCHANGED th1_flag
    /\ NoRound
    /\ UNCHANGED <<vtProgram, vtPc, flag_reset, vtGlob, vtCycle, vtTick, vtEnd,
                   sqPhase>>

(***************************************************************************)
(* wave_functions.py: the routines a control thread may run                *)
(***************************************************************************)
\* routines with a timing loop nested in the flag-checking loop
NestedRoutines == {"pressure_step_response", "pressure_ramp_response"}

\* routines with one loop that checks the flags and the end time
SingleLoopRoutines == {"pressure_triangular_response", "pressure_sine_wave_response",
                       "pressure_square_wave_response", "circular",
                       "elliptical_motion"}

WaveRoutines == NestedRoutines \cup SingleLoopRoutines
                    \cup {"pressure_sequential_custom_response"}

\* arguments of the calls: pd_array = [5.0]; bounds 0.0 and 2.0 psi;
\* amplitude 2.0 and offset 1.0 psi; circular and elliptical_motion defaults
wf_pd_array == <<5 * PSI>>
wf_lower_bound == 0
wf_upper_bound == 2 * PSI
wf_amplitude == 2 * PSI
wf_offset == 1 * PSI
wf_center == 6 * PSI
wf_amp == 3 * PSI
wf_amp_x == 4 * PSI
wf_amp_y == 2 * PSI

\* client_instance.pressure_array[0], the target of Arduino 8
wf_arduino_8_target == 5 * PSI

\* pressure_step_response: pd_array[i] if i < len(pd_array) else 0.0
StepValue(i) == IF i < Len(wf_pd_array) THEN wf_pd_array[i + 1] ELSE 0

\* pressure_ramp_response with up_rate = down_rate, at quarter q of cycle_time:
\* t <= ramp_up_time: lower + up_rate * t, else upper - down_rate * (t - ramp_up_time)
RampValue(q) == TriangularAt(wf_lower_bound, wf_upper_bound, q)

\* pressure_sine_wave_response: max(0.0, offset + amplitude * sin(2 pi f t))
SineValue(q) == Max(0, wf_offset + wf_amplitude * SinQ(q))

\* pressure_square_wave_response: offset + amplitude in the first half period,
\* offset - amplitude in the second, then max(0.0, .)
SquareValue(q) == Max(0, IF q % 4 < 2 THEN wf_offset + wf_amplitude
                                       ELSE wf_offset - wf_amplitude)

\* circular: phi = phases[i % 4]; max(0.0, min(100.0, center + amp * sin(.. + phi)))
CircularValue(i, q) == Clamp(0, 100 * PSI, wf_center + wf_amp * SinQ(q + (i % 4)))

\* elliptical_motion: amp = amp_x if i % 2 == 0 else amp_y
EllipticalValue(i, q) ==
    Clamp(0, 100 * PSI,
          wf_center + (IF i % 2 = 0 THEN wf_amp_x ELSE wf_amp_y) * SinQ(q + (i % 4)))

\* what the routine writes to pd_array_1[i] (0-based i) at quarter sample q
WaveValue(routine, i, q) ==
    CASE routine = "pressure_step_response" -> StepValue(i)
      [] routine = "pressure_ramp_response" -> RampValue(q)
      [] routine = "pressure_triangular_response" ->
             TriangularAt(wf_lower_bound, wf_upper_bound, q)
      [] routine = "pressure_sine_wave_response" -> SineValue(q)
      [] routine = "pressure_square_wave_response" -> SquareValue(q)
      [] routine = "circular" -> CircularValue(i, q)
      [] routine = "elliptical_motion" -> EllipticalValue(i, q)

WaveRound(routine) ==
    \E q \in QuarterSamples :
        Round([c \in VtChannels |-> WaveValue(routine, c - 1, q)])

\* pressure_step_response / pressure_ramp_response, the outer loop:
\* while th1_flag and th2_flag and time.time() < end_time: cycle_start = time.time()
nested_outer_loop ==
    /\ VtStep
    /\ vtProgram \in NestedRoutines
    /\ vtPc = "wf_outer"
    /\ IF VtFlags /\ ~vtEnd
       THEN /\ vtPc' = "wf_inner"
            /\ vtCycle' = vtCycle + 1
            /\ vtTick' = 0
       ELSE /\ vtPc' = "wf_done"
            /\ UNCHANGED <<vtCycle, vtTick>>
    /\ NoRound
    /\ UNCHANGED <<vtProgram, th1_flag, th2_flag, stopPc, flag_reset, vtGlob,
                   vtEnd, sqPhase>>

\* the inner loop:
\* while time.time() - cycle_start < step_time and time.time() < end_time
\* (cycle_start was taken just before, so the first test passes)
nested_inner_loop ==
    /\ VtStep
    /\ vtProgram \in NestedRoutines
    /\ vtPc = "wf_inner"
    /\ \/ /\ vtTick < MaxTicks
          /\ vtPc' = "wf_inner_body"
          /\ UNCHANGED vtEnd
       \/ /\ vtTick >= 1
          /\ vtCycle < MaxCycles
          /\ vtPc' = "wf_outer"
          /\ UNCHANGED vtEnd
       \/ /\ vtTick >= 1
          /\ vtPc' = "wf_outer"
          /\ vtEnd' = TRUE
    /\ NoRound
    /\ UNCHANGED <<vtProgram, th1_flag, th2_flag, stopPc, flag_reset, vtGlob,
                   vtCycle, vtTick, sqPhase>>

\* the inner loop body: one round of commands, then time.sleep(0.01)
nested_inner_body ==
    /\ VtStep
    /\ vtProgram \in NestedRoutines
    /\ vtPc = "wf_inner_body"
    /\ WaveRound(vtProgram)
    /\ vtPc' = "wf_inner"
    /\ UNCHANGED <<vtProgram, th1_flag, th2_flag, stopPc, flag_reset, vtGlob,
                   vtCycle, vtEnd, sqPhase>>

pressure_step_response ==
    /\ vtProgram = "pressure_step_response"
    /\ nested_outer_loop \/ nested_inner_loop \/ nested_inner_body

pressure_ramp_response ==
    /\ vtProgram = "pressure_ramp_response"
    /\ nested_outer_loop \/ nested_inner_loop \/ nested_inner_body

\* triangular, sine, square, circular, elliptical_motion:
\* while th1_flag and th2_flag and time.time() < end_time
single_loop ==
    /\ VtStep
    /\ vtProgram \in SingleLoopRoutines
    /\ vtPc = "wf_loop"
    /\ \/ /\ VtFlags
          /\ vtTick < MaxTicks
          /\ vtPc' = "wf_body"
       \/ /\ ~VtFlags \/ vtTick >= 1
          /\ vtPc' = "wf_done"
    /\ NoRound
    /\ UNCHANGED <<vtProgram, th1_flag, th2_flag, stopPc, flag_reset, vtGlob,
                   vtCycle, vtTick, vtEnd, sqPhase>>

\* the loop body: one round of commands, then time.sleep(0.01)
single_body ==
    /\ VtStep
    /\ vtProgram \in SingleLoopRoutines
    /\ vtPc = "wf_body"
    /\ WaveRound(vtProgram)
    /\ vtPc' = "wf_loop"
    /\ UNCHANGED <<vtProgram, th1_flag, th2_flag, stopPc, flag_reset, vtGlob,
                   vtCycle, vtEnd, sqPhase>>

single_loop_routine == single_loop \/ single_body

(***************************************************************************)
(* wave_functions.py: pressure_sequential_custom_response with NArs = [8]  *)
(***************************************************************************)
\* the phase loops of one wave cycle, in program order
SqPhases == <<"initial_delay", "ramp_up_8", "hold_8", "combined_hold",
              "ramp_down_8", "return_stabilization", "inter_cycle">>

\* phase loops whose condition holds "and time.time() < experiment_end_time";
\* the others test the end time after the flags and break
SqCondEndPhases == {"hold_8", "combined_hold", "return_stabilization", "inter_cycle"}

arduino_8_idx == IndexOf(NArs, 8)

\* the position after the phase loop ph has ended; ended tells whether the end
\* time has been reached ("if time.time() >= experiment_end_time: break")
SqAfter(ph, ended) ==
    CASE ph = "initial_delay" -> <<"sq_loop", "ramp_up_8">>
      [] ph = "ramp_up_8" -> <<"sq_loop", "hold_8">>
      [] ph = "hold_8" -> <<"sq_loop", "combined_hold">>
      [] ph = "combined_hold" -> <<"sq_loop", "ramp_down_8">>
      [] ph = "ramp_down_8" -> <<"sq_loop", "return_stabilization">>
      [] ph = "return_stabilization" ->
             IF ended THEN <<"sq_final", "none">>
             ELSE IF vtCycle > 1 THEN <<"sq_loop", "inter_cycle">>
             ELSE <<"sq_main", "none">>
      [] ph = "inter_cycle" -> <<"sq_main", "none">>

\* what the body of phase loop ph writes to pd_array_1[arduino_8_idx]
SqValues(ph) ==
    CASE ph = "initial_delay" -> {pd_array_1[arduino_8_idx]}
      [] ph = "ramp_up_8" ->
             {Min(wf_arduino_8_target, (wf_arduino_8_target * k) \div 2) : k \in 0..2}
      [] ph = "hold_8" -> {wf_arduino_8_target}
      [] ph = "combined_hold" -> {wf_arduino_8_target}
      [] ph = "ramp_down_8" ->
             {Max(0, pd_array_1[arduino_8_idx] - (wf_arduino_8_target * k) \div 2) : k \in 0..2}
      [] ph = "return_stabilization" -> {0}
      [] ph = "inter_cycle" -> {0}

\* every pd_array_1 entry is set to 0.0, the index of Arduino 8 is looked up
\* (Arduino 4 is not in NArs: its ramp and hold are skipped)
sequential_custom_start ==
    /\ VtStep
    /\ vtProgram = "pressure_sequential_custom_response"
    /\ vtPc = "sq_start"
    /\ pd_array_1' = VtZeros
    /\ vtCycle' = 0
    /\ vtPc' = "sq_main"
    /\ UNCHANGED <<vtProgram, th1_flag, th2_flag, stopPc, flag_reset, vtLastCmd,
                   vtGlob, vtTick, vtEnd, sqPhase, roundsAfterStop,
                   nonzeroCommanded>>

\* while time.time() < experiment_end_time: cycle_count += 1; break when less
\* than 30% of a cycle remains; otherwise every channel but Arduino 4 is set to
\* 0.0 and the first phase begins (the initial delay only in the first cycle)
sequential_custom_main ==
    /\ VtStep
    /\ vtProgram = "pressure_sequential_custom_response"
    /\ vtPc = "sq_main"
    /\ \/ /\ ~vtEnd
          /\ vtCycle < MaxCycles
          /\ vtCycle' = vtCycle + 1
          /\ pd_array_1' = VtZeros
          /\ vtPc' = "sq_loop"
          /\ sqPhase' = IF vtCycle = 0 THEN "initial_delay" ELSE "ramp_up_8"
          /\ vtTick' = 0
       \/ /\ vtEnd \/ vtCycle >= 1
          /\ vtPc' = "sq_final"
          /\ UNCHANGED <<vtCycle, pd_array_1, sqPhase, vtTick>>
    /\ UNCHANGED <<vtProgram, th1_flag, th2_flag, stopPc, flag_reset, vtLastCmd,
                   vtGlob, vtEnd, roundsAfterStop, nonzeroCommanded>>

\* a phase loop: its condition, then "if not th1_flag or not th2_flag: return",
\* then (ramp and delay phases) "if time.time() >= experiment_end_time: break".
\* Leaving the ramp-down phase sets pd_array_1[arduino_8_idx] = 0.0.
sequential_custom_loop ==
    /\ VtStep
    /\ vtProgram = "pressure_sequential_custom_response"
    /\ vtPc = "sq_loop"
    /\ \/ \* the phase is over, or is skipped
          /\ \/ vtEnd
             \/ vtTick >= 1
             \/ sqPhase = "ramp_down_8" /\ pd_array_1[arduino_8_idx] = 0
          /\ vtPc' = SqAfter(sqPhase, vtEnd)[1]
          /\ sqPhase' = SqAfter(sqPhase, vtEnd)[2]
          /\ vtTick' = 0
          /\ UNCHANGED vtEnd
          /\ pd_array_1' = IF sqPhase = "ramp_down_8" THEN VtZeros ELSE pd_array_1
       \/ \* the end time is reached during the phase
          /\ ~vtEnd
          /\ vtTick >= 1
          /\ VtFlags \/ sqPhase \in SqCondEndPhases
          /\ vtEnd' = TRUE
          /\ vtPc' = SqAfter(sqPhase, TRUE)[1]
          /\ sqPhase' = SqAfter(sqPhase, TRUE)[2]
          /\ vtTick' = 0
          /\ pd_array_1' = IF sqPhase = "ramp_down_8" THEN VtZeros ELSE pd_array_1
       \/ \* the loop goes on: return on a cleared flag, else the body
          /\ ~vtEnd
          /\ vtTick < MaxTicks
          /\ ~(sqPhase = "ramp_down_8" /\ vtTick = 0 /\ pd_array_1[arduino_8_idx] = 0)
          /\ vtPc' = IF VtFlags THEN "sq_body" ELSE "wf_done"
          /\ UNCHANGED <<sqPhase, vtTick, vtEnd, pd_array_1>>
    /\ UNCHANGED <<vtProgram, th1_flag, th2_flag, stopPc, flag_reset, vtLastCmd,
                   vtGlob, vtCycle, roundsAfterStop, nonzeroCommanded>>

\* the body of a phase loop: write Arduino 8's pressure, _send_pressure_commands
sequential_custom_body ==
    /\ VtStep
    /\ vtProgram = "pressure_sequential_custom_response"
    /\ vtPc = "sq_body"
    /\ \E v \in SqValues(sqPhase) :
          Round([pd_array_1 EXCEPT ![arduino_8_idx] = v])
    /\ vtPc' = "sq_loop"
    /\ UNCHANGED <<vtProgram, th1_flag, th2_flag, stopPc, flag_reset, vtGlob,
                   vtCycle, vtEnd, sqPhase>>

\* the final cleanup after the main loop: Arduino 7 and 8 to 0.0 and one more
\* _send_pressure_commands
sequential_custom_final ==
    /\ VtStep
    /\ vtProgram = "pressure_sequential_custom_response"
    /\ vtPc = "sq_final"
    /\ Round(VtZeros)
    /\ vtPc' = "wf_done"
    /\ UNCHANGED <<vtProgram, th1_flag, th2_flag, stopPc, flag_reset, vtGlob,
                   vtCycle, vtEnd, sqPhase>>

pressure_sequential_custom_response ==
    \/ sequential_custom_start
    \/ sequential_custom_main
    \/ sequential_custom_loop
    \/ sequential_custom_body
    \/ sequential_custom_final

(***************************************************************************)
(* One run of a pressure routine on the control thread                     *)
(***************************************************************************)
VtPrograms == {"th_pd_gen"} \cup WaveRoutines

\* where the control thread starts the routine
VtEntry(program) ==
    CASE program = "th_pd_gen" -> "pd_start"
      [] program \in NestedRoutines -> "wf_outer"
      [] program \in SingleLoopRoutines -> "wf_loop"
      [] program = "pressure_sequential_custom_response" -> "sq_start"

\* PressureController.__init__ and _initialize_threading, the threads started
VtInit ==
    /\ vtProgram \in VtPrograms
    /\ vtPc = VtEntry(vtProgram)
    /\ th1_flag = TRUE
    /\ th2_flag = TRUE
    /\ stopPc = "armed"
    /\ flag_reset = TRUE
    /\ pd_array_1 = VtZeros
    /\ vtLastCmd = VtZeros
    /\ vtGlob = 0
    /\ vtCycle = 0
    /\ vtTick = 0
    /\ vtEnd = FALSE
    /\ sqPhase = "none"
    /\ roundsAfterStop = 0
    /\ nonzeroCommanded = FALSE
    /\ th3_flag = TRUE
    /\ run_event = TRUE
    /\ th2Pc = "loop"
    /\ th3Pc = "loop"
    /\ received_count = 0

\* rows th_data_exchange_high writes before its 10 s rate window has elapsed
\* for certain (the window may also elapse earlier)
MaxWindowRows == 2

\* th2: while self.run_event.is_set() and self.th2_flag: receive the mocap
\* data, publish the combined array; time.sleep(0.005)
th_data_exchange ==
    /\ th2Pc = "loop"
    /\ th2Pc' = IF run_event /\ th2_flag THEN "loop" ELSE "done"
    /\ UNCHANGED <<th3_flag, run_event, th3Pc, received_count>>
    /\ UNCHANGED <<vtProgram, vtPc, th1_flag, th2_flag, stopPc, flag_reset,
                   pd_array_1, vtLastCmd, vtGlob, vtCycle, vtTick, vtEnd,
                   sqPhase, roundsAfterStop, nonzeroCommanded>>
    /\ UNCHANGED <<ctlVars, spVars, auxVars>>

\* th3: while self.run_event.is_set() and self.th3_flag: write one CSV row,
\* received_count += 1, reset to 0 when the rate window has elapsed; publish;
\* time.sleep(0.01).  Nothing in the program clears th3_flag or run_event.
th_data_exchange_high ==
    /\ th3Pc = "loop"
    /\ IF run_event /\ th3_flag
       THEN /\ \/ received_count < MaxWindowRows /\ received_count' = received_count + 1
               \/ received_count' = 0
            /\ UNCHANGED th3Pc
       ELSE /\ th3Pc' = "done"
            /\ UNCHANGED received_count
    /\ UNCHANGED <<th3_flag, run_event, th2Pc>>
    /\ UNCHANGED <<vtProgram, vtPc, th1_flag, th2_flag, stopPc, flag_reset,
                   pd_array_1, vtLastCmd, vtGlob, vtCycle, vtTick, vtEnd,
                   sqPhase, roundsAfterStop, nonzeroCommanded>>
    /\ UNCHANGED <<ctlVars, spVars, auxVars>>

InitVtech == CtlIdle /\ SpIdle /\ VtInit /\ AuxIdle

\* the steps of th1, the control thread
control_thread ==
    \/ th_pd_gen
    \/ pressure_step_response
    \/ pressure_ramp_response
    \/ single_loop_routine
    \/ pressure_sequential_custom_response

NextVtech ==
    \/ th_pd_gen
    \/ pressure_step_response
    \/ pressure_ramp_response
    \/ single_loop_routine
    \/ pressure_sequential_custom_response
    \/ keyboard_interrupt
    \/ th_data_exchange
    \/ th_data_exchange_high

SpecVtech == InitVtech /\ [][NextVtech]_vars

\* the three threads are scheduled again and again; nothing is assumed of a
\* KeyboardInterrupt arriving
SpecVtechLive ==
    /\ InitVtech
    /\ [][NextVtech]_vars
    /\ WF_vars(control_thread)
    /\ WF_vars(th_data_exchange)
    /\ WF_vars(th_data_exchange_high)

(***************************************************************************)
(* Claims about the vtech routines (specification SpecVtech)               *)
(***************************************************************************)
\* C7: every th_pd_gen trial that has commanded a non-zero pressure ends with
\* a zero-pressure command sent to every channel, also when an external stop
\* request cleared th1_flag / th2_flag.
C7_TrialEndsAtZero ==
    (vtProgram = "th_pd_gen" /\ vtPc = "pd_done" /\ nonzeroCommanded)
        => \A i \in VtChannels : vtLastCmd[i] = 0

\* C9: once a stop flag is cleared, every wave_functions routine sends at most
\* one more round of actuator commands before it returns.
C9_AtMostOneRoundAfterStop ==
    vtProgram \in WaveRoutines => roundsAfterStop <= 1

\* C14: once th_pd_gen has finished its trial, or an external stop has cleared
\* th1_flag and th2_flag, the three worker threads th1, th2 and th3 all
\* eventually terminate.
C14_AllWorkersTerminate ==
    (vtProgram = "th_pd_gen" /\ (vtPc = "pd_done" \/ (~th1_flag /\ ~th2_flag)))
        ~> (vtPc = "pd_done" /\ th2Pc = "done" /\ th3Pc = "done")

(***************************************************************************)
(* ArduinoManager.connect and CommunicationManager.                         *)
(* initialize_arduino_connections: the port each channel id is bound to    *)
(* (specification SpecPorts)                                               *)
(***************************************************************************)
\* channel ids a configuration may hold
PortIdSamples == -9..10

\* a Python list of length n indexed with i: no IndexError
PyIndexOk(n, i) == -n <= i /\ i < n

\* the 1-based position list[i] reads: a negative i counts from the end
PyIndexPos(n, i) == IF i >= 0 THEN i + 1 ELSE n + i + 1

\* ARDUINO_PORTS[arduino_id - 1]
PortOf(arduino_id) == ARDUINO_PORTS[PyIndexPos(Len(ARDUINO_PORTS), arduino_id - 1)]

InRange(seq, x) == \E k \in 1..Len(seq) : seq[k] = x

\* ArduinoManager.__init__ with one or two configured channel ids
PtInit ==
    /\ ptIds \in {<<a>> : a \in PortIdSamples}
                  \cup {<<a, b>> : a \in PortIdSamples, b \in PortIdSamples}
    /\ ptIdx = 1
    /\ ptBound = <<>>
    /\ ptError = "none"

\* one pass of the loop: sock.bind((PC_ADDRESS, ARDUINO_PORTS[arduino_id - 1])),
\* listen, accept.  The index raises IndexError when it is out of the list's
\* range; bind raises OSError on a port a listening socket already holds.
connect_bind ==
    /\ ptError = "none"
    /\ ptIdx <= Len(ptIds)
    /\ IF ~PyIndexOk(Len(ARDUINO_PORTS), ptIds[ptIdx] - 1)
       THEN /\ ptError' = "IndexError"
            /\ UNCHANGED <<ptIdx, ptBound>>
       ELSE IF InRange(ptBound, PortOf(ptIds[ptIdx]))
       THEN /\ ptError' = "OSError"
            /\ UNCHANGED <<ptIdx, ptBound>>
       ELSE /\ ptBound' = Append(ptBound, PortOf(ptIds[ptIdx]))
            /\ ptIdx' = ptIdx + 1
            /\ UNCHANGED ptError
    /\ UNCHANGED ptIds
    /\ UNCHANGED <<ctlVars, spVars, vtVars, mcVars, lgVars, extVars>>

InitPorts == CtlIdle /\ SpIdle /\ VtIdle /\ PtInit /\ McIdle /\ LgIdle /\ ExtIdle

NextPorts == connect_bind

SpecPorts == InitPorts /\ [][NextPorts]_vars

\* C17: every configured channel id k is served on ARDUINO_PORTS[k-1] with k
\* in 1..8, distinct ids get distinct ports, and an id outside 1..8 is
\* rejected at connect time instead of being bound to another channel's port.
C17_PortsByChannelId ==
    /\ \A k \in 1..Len(ptBound) :
          /\ ptIds[k] \in 1..Len(ARDUINO_PORTS)
          /\ ptBound[k] = ARDUINO_PORTS[ptIds[k]]
    /\ \A j, k \in 1..Len(ptBound) : ptIds[j] # ptIds[k] => ptBound[j] # ptBound[k]

(***************************************************************************)
(* MocapManager: the reader thread, get_data and stop                      *)
(* (specification SpecMocap)                                               *)
(***************************************************************************)
\* what one non-blocking recv can produce: zmq.Again (no message), a message
\* that does not decode, or a message of n comma-separated values.  The
\* values of the message with tag g are 100 * g + 1, 100 * g + 2, ...
McLens == {0, MOCAP_DATA_SIZE - 1, MOCAP_DATA_SIZE, MOCAP_DATA_SIZE + 1}
McTags == {1, 2, 3}
McOutcomes ==
    {[kind |-> k, tag |-> 0, n |-> 0] : k \in {"again", "undecodable"}}
        \cup {[kind |-> "message", tag |-> g, n |-> len] : g \in McTags, len \in McLens}

\* np.fromstring(msg.decode("utf-8"), dtype=float, sep=",")
ParseValues(m) == [i \in 1..m.n |-> 100 * m.tag + i]

\* arr[:k]
Slice(arr, k) == SubSeq(arr, 1, Min(k, Len(arr)))

\* a test that lets every array pass
AcceptsAny(arr) == TRUE

\* if len(arr) >= MOCAP_DATA_SIZE:
Accepts(arr) == Len(arr) >= MOCAP_DATA_SIZE

\* MocapManager.__init__ and start: the reader thread is running
McInit ==
    /\ mcData = McZeros
    /\ mcLast = <<>>
    /\ mcRunning = TRUE
    /\ mcPc = "loop"
    /\ mcRecv = NoRecv
    /\ mcValid = <<>>
    /\ mcGot = McZeros

McStep == UNCHANGED <<ctlVars, spVars, vtVars, ptVars, lgVars, extVars>>

\* MocapManager._loop, one pass: while self.running: try: recv, parse, store
\* except: if last_data: self.data = last_data.copy(); time.sleep(0.01)
mocap_loop ==
    /\ McStep
    /\ mcPc = "loop"
    /\ IF ~mcRunning
       THEN /\ mcPc' = "done"
            /\ UNCHANGED <<mcData, mcLast, mcRecv, mcValid>>
       ELSE /\ UNCHANGED mcPc
            /\ \E o \in McOutcomes :
                  /\ mcRecv' = o
                  /\ IF o.kind = "message"
                     THEN /\ IF Accepts(ParseValues(o))
                             THEN /\ mcData' = Slice(ParseValues(o), MOCAP_DATA_SIZE)
                                  /\ mcLast' = Slice(ParseValues(o), MOCAP_DATA_SIZE)
                             ELSE UNCHANGED <<mcData, mcLast>>
                          /\ mcValid' = IF o.n >= MOCAP_DATA_SIZE
                                        THEN [i \in 1..MOCAP_DATA_SIZE |-> 100 * o.tag + i]
                                        ELSE mcValid
                     ELSE /\ mcData' = IF mcLast # <<>> THEN mcLast ELSE mcData
                          /\ UNCHANGED <<mcLast, mcValid>>
    /\ UNCHANGED <<mcRunning, mcGot>>

\* MocapManager.get_data, called by the logging thread: return self.data.copy()
get_data ==
    /\ McStep
    /\ mcGot' = mcData
    /\ UNCHANGED <<mcData, mcLast, mcRunning, mcPc, mcRecv, mcValid>>

\* MocapManager.stop: self.running = False
mocap_manager_stop ==
    /\ McStep
    /\ mcRunning
    /\ mcRunning' = FALSE
    /\ UNCHANGED <<mcData, mcLast, mcPc, mcRecv, mcValid, mcGot>>

InitMocap == CtlIdle /\ SpIdle /\ VtIdle /\ PtIdle /\ McInit /\ LgIdle /\ ExtIdle

NextMocap == mocap_loop \/ get_data \/ mocap_manager_stop

SpecMocap == InitMocap /\ [][NextMocap]_vars

\* C18: get_data always returns exactly 21 values: all zeros until the first
\* valid message, afterwards the first 21 values of the most recent message
\* with at least 21 values; a missing, short or undecodable message leaves the
\* stored vector unchanged and never ends the reader thread.
C18_AlwaysTwentyOneValues ==
    /\ Len(mcData) = MOCAP_DATA_SIZE
    /\ Len(mcGot) = MOCAP_DATA_SIZE
    /\ mcData = IF mcValid = <<>> THEN McZeros ELSE mcValid
    /\ mcGot # McZeros => mcValid # <<>>
    /\ mcPc = "done" => ~mcRunning

\* after a valid message a missing, short or undecodable one arrived, and
\* get_data returned the valid message's first 21 values
C18_Witness ==
    /\ mcValid # <<>>
    /\ mcRecv.kind \in {"again", "undecodable"} \/ mcRecv.n < MOCAP_DATA_SIZE
    /\ mcGot = mcValid
    /\ mcPc = "loop"

(***************************************************************************)
(* DataLogger.log and the writers of Controller.desired and                *)
(* Controller.measured (specification SpecLog)                             *)
(***************************************************************************)
\* rows the buffer is followed for
MaxBuffer == 1

\* pressures a wave routine or the rampdown writes, sensor lists send_all
\* stores, vectors get_data returns
LgPressures == {0, PSI}
LgSensorLists == {Fallback, Sensors(SessionFrame)}
LgPoses == {McZeros, [i \in 1..MOCAP_DATA_SIZE |-> 100 + i]}

\* "for sensors in measured: row.extend(sensors)"
RECURSIVE Flatten(_)
Flatten(m) == IF m = <<>> THEN <<>> ELSE Head(m) \o Flatten(Tail(m))

\* the values log() is called with, in row order (after the time stamp)
Cells(d, m, mc) == d \o Flatten(m) \o mc

\* a row that keeps the lists it was given instead of their values
RowByReference(d, m, mc) == [kind |-> "reference", cells |-> <<>>]

\* row.extend(desired); row.extend(sensors) ...; row.extend(mocap): the row
\* holds the values
RowOf(d, m, mc) == [kind |-> "values", cells |-> Cells(d, m, mc)]

\* what a reader of data_buffer finds in a row
RowCells(row) == IF row.kind = "values" THEN row.cells
                                        ELSE Cells(lgDesired, lgMeasured, lgMocap)

\* Controller.__init__ and DataLogger.start
LgInit ==
    /\ lgDesired = [i \in LgChannels |-> 0]
    /\ lgMeasured = [i \in LgChannels |-> Fallback]
    /\ lgMocap = McZeros
    /\ data_buffer = <<>>
    /\ lgAtCall = <<>>

LgStep == UNCHANGED <<ctlVars, spVars, vtVars, ptVars, mcVars, extVars>>

\* DataLogger.log(desired, measured, mocap), called by _log_loop
log ==
    /\ LgStep
    /\ Len(data_buffer) < MaxBuffer
    /\ data_buffer' = Append(data_buffer, RowOf(lgDesired, lgMeasured, lgMocap))
    /\ lgAtCall' = Append(lgAtCall, Cells(lgDesired, lgMeasured, lgMocap))
    /\ UNCHANGED <<lgDesired, lgMeasured, lgMocap>>

\* a wave routine or graceful_rampdown: controller.desired[i] = p
write_desired ==
    /\ LgStep
    /\ \E c \in LgChannels, p \in LgPressures :
          lgDesired' = [lgDesired EXCEPT ![c] = p]
    /\ UNCHANGED <<lgMeasured, lgMocap, data_buffer, lgAtCall>>

\* send_all: self.measured[i] = self.arduino.send_pressure(i, self.desired[i])
write_measured ==
    /\ LgStep
    /\ \E c \in LgChannels, r \in LgSensorLists :
          lgMeasured' = [lgMeasured EXCEPT ![c] = r]
    /\ UNCHANGED <<lgDesired, lgMocap, data_buffer, lgAtCall>>

\* _log_loop: mocap = self.mocap.get_data()
read_pose ==
    /\ LgStep
    /\ \E v \in LgPoses : lgMocap' = v
    /\ UNCHANGED <<lgDesired, lgMeasured, data_buffer, lgAtCall>>

InitLog == CtlIdle /\ SpIdle /\ VtIdle /\ PtIdle /\ McIdle /\ LgInit /\ ExtIdle

NextLog == log \/ write_desired \/ write_measured \/ read_pose

SpecLog == InitLog /\ [][NextLog]_vars

\* C20: a row stored by DataLogger.log is a value snapshot taken at the call:
\* no later write to desired or measured changes any value of a logged row.
C20_RowsAreSnapshots ==
    \A i \in 1..Len(data_buffer) : RowCells(data_buffer[i]) = lgAtCall[i]

\* after a row was logged, desired and measured were both written
C20_Witness ==
    /\ Len(data_buffer) >= 1
    /\ \E c \in LgChannels : lgAtCall[1][c] # lgDesired[c]
    /\ SubSeq(lgAtCall[1], Len(lgDesired) + 1, Len(lgDesired) + 4) # lgMeasured[1]

(***************************************************************************)
(* DataLogger.start, log and stop against the monthly HDF5 file            *)
(* (specification SpecStore), and the numbering of new experiments by      *)
(* DataLogger.start and PressureController.experiment_number               *)
(* (specification SpecNumbering)                                           *)
(***************************************************************************)
\* rows a session buffers, DataLogger.stop calls followed
MaxStored == 2
MaxStops == 2

baseVars == <<ctlVars, spVars, vtVars, ptVars, mcVars, lgVars>>

BaseIdle == CtlIdle /\ SpIdle /\ VtIdle /\ PtIdle /\ McIdle /\ LgIdle

\* the decimal digits of n
RECURSIVE Digits(_)
Digits(n) == IF n < 10 THEN <<n>> ELSE Append(Digits(n \div 10), n % 10)

\* f"{exp_num:03d}": the digits, zero-padded to three
Format03d(n) ==
    LET d == Digits(n)
    IN  IF Len(d) >= 3 THEN d ELSE [i \in 1..(3 - Len(d)) |-> 0] \o d

\* int(text) succeeds on decimal digits (-1 stands for any other character)
IsInt(field) == field # <<>> /\ \A i \in 1..Len(field) : field[i] \in 0..9

\* int(text)
RECURSIVE ParseInt(_)
ParseInt(field) ==
    IF field = <<>> THEN 0
    ELSE 10 * ParseInt(SubSeq(field, 1, Len(field) - 1)) + field[Len(field)]

\* f"exp_{exp_num:03d}_{WAVE_FUNCTION}_{date_str}"
GroupName(n, rest) == [prefix |-> "exp", field |-> Format03d(n), rest |-> rest]

\* existing = [k for k in f.keys() if k.startswith("exp_")], then
\* int(exp_name.split("_")[1]) of each, a ValueError skipping the name
ExpNumbers(keys) ==
    {ParseInt(k.field) : k \in {k \in keys : k.prefix = "exp" /\ IsInt(k.field)}}

SetMax(S) == CHOOSE x \in S : \A y \in S : y <= x

\* numbering by the count of existing experiments
CountPlusOne(numbers) == Cardinality(numbers) + 1

\* exp_num = 1; if numbers: exp_num = max(numbers) + 1
\* (vtech.py: max(existing_numbers, default=0) + 1)
MaxPlusOne(numbers) == IF numbers = {} THEN 1 ELSE SetMax(numbers) + 1

\* column names, as (kind, channel id or body, sensor or component)
TimeCol == [k |-> "time", a |-> 0, s |-> 0]
PdCol(aid) == [k |-> "pd", a |-> aid, s |-> 0]
PmCol(aid, n) == [k |-> "pm", a |-> aid, s |-> n]
MocapCol(j) == [k |-> "mocap", a |-> ((j - 1) \div 7) + 1, s |-> ((j - 1) % 7) + 1]

\* DataLogger.stop: col_names
col_names ==
    <<TimeCol>>
    \o [i \in 1..Len(stIds) |-> PdCol(stIds[i])]
    \o [j \in 1..(4 * Len(stIds)) |->
            PmCol(stIds[((j - 1) \div 4) + 1], ((j - 1) % 4) + 1)]
    \o (IF USE_MOCAP /\ MOCAP_AVAILABLE THEN [j \in 1..(3 * 7) |-> MocapCol(j)]
                                        ELSE <<>>)

\* the quantity behind each value of a row built by DataLogger.log:
\* desired[i] and measured[i] belong to ARDUINO_IDS[i]
RowOrigin(d, m, mc) ==
    <<TimeCol>>
    \o [i \in 1..Len(d) |-> PdCol(stIds[i])]
    \o Flatten([i \in 1..Len(m) |-> [n \in 1..Len(m[i]) |-> PmCol(stIds[i], n)]])
    \o [j \in 1..Len(mc) |-> MocapCol(j)]

\* Controller.__init__: desired and measured have one entry per id, and
\* self.mocap = MocapManager() if USE_MOCAP else None; a MocapManager that
\* never connected returns its initial 21 zeros
StDesired(p) == [i \in 1..Len(stIds) |-> p]
StMeasured == [i \in 1..Len(stIds) |-> Fallback]
StMocap == IF USE_MOCAP THEN McZeros ELSE <<>>

\* grp = f.create_group(name) raises ValueError when the name exists
GroupNeverExists(f, name) == FALSE
GroupExists(f, name) == name \in DOMAIN f

\* a group an earlier session stored
EarlierGroup ==
    [columns |-> <<TimeCol>>,
     data |-> <<[vals |-> <<0>>, origin |-> <<TimeCol>>]>>,
     attrs |-> [description |-> "earlier", sample_count |-> 1,
                mocap_enabled |-> FALSE, timestamp |-> 0]]

\* keys an existing monthly file may hold
KeySamples ==
    {GroupName(1, "earlier"), GroupName(3, "earlier"), GroupName(10, "earlier"),
     [prefix |-> "exp", field |-> <<-1>>, rest |-> "final"],
     [prefix |-> "calibration", field |-> <<0, 0, 7>>, rest |-> "earlier"]}

StInit ==
    /\ USE_MOCAP \in BOOLEAN
    /\ MOCAP_AVAILABLE \in BOOLEAN
    /\ stIds \in IdConfigs \cup {<<7, 8>>}
    /\ h5file \in {[k \in K |-> EarlierGroup] : K \in SUBSET KeySamples}
    /\ stPath = FALSE
    /\ exp_group_name = NoName
    /\ stBuffer = <<>>
    /\ stStops = 0
    /\ stRaised = FALSE
    /\ stFirst = <<>>

StStep ==
    UNCHANGED <<baseVars, csvVars, wvVars, wgVars, tgVars, asVars, pqVars,
                rpVars, msVars, clVars, svVars, gnVars, lkVars>>

\* DataLogger.start
start ==
    /\ StStep
    /\ ~stPath
    /\ stPath' = TRUE
    /\ exp_group_name' = GroupName(MaxPlusOne(ExpNumbers(DOMAIN h5file)), "now")
    /\ UNCHANGED <<USE_MOCAP, MOCAP_AVAILABLE, stIds, h5file, stBuffer, stStops,
                   stRaised, stFirst>>

\* DataLogger.log as _log_loop calls it
DataLogger_log ==
    /\ StStep
    /\ stPath
    /\ Len(stBuffer) < MaxStored
    /\ \E p \in LgPressures :
          stBuffer' = Append(stBuffer,
              [vals |-> <<Len(stBuffer)>> \o Cells(StDesired(p), StMeasured, StMocap),
               origin |-> RowOrigin(StDesired(p), StMeasured, StMocap)])
    /\ UNCHANGED <<USE_MOCAP, MOCAP_AVAILABLE, stIds, h5file, stPath,
                   exp_group_name, stStops, stRaised, stFirst>>

\* np.array(self.data_buffer) raises on rows of unequal length
Ragged(buffer) == \E i, j \in 1..Len(buffer) : Len(buffer[i].vals) # Len(buffer[j].vals)

\* the group DataLogger.stop writes
NewGroup(description) ==
    [columns |-> col_names,
     data |-> stBuffer,
     attrs |-> [description |-> IF description # "" THEN description
                                ELSE "No description provided",
                sample_count |-> Len(stBuffer),
                mocap_enabled |-> USE_MOCAP /\ MOCAP_AVAILABLE,
                timestamp |-> stStops + 1]]

\* DataLogger.stop(description)
DataLogger_stop ==
    /\ StStep
    /\ stStops < MaxStops
    /\ ~stRaised
    /\ stStops' = stStops + 1
    /\ \E description \in {"", "note"} :
          IF ~stPath \/ stBuffer = <<>>
          THEN UNCHANGED <<h5file, stRaised>>
          ELSE IF Ragged(stBuffer)
          THEN /\ stRaised' = TRUE
               /\ UNCHANGED h5file
          ELSE IF GroupExists(h5file, exp_group_name)
          THEN \* ValueError, caught by "except Exception"
               UNCHANGED <<h5file, stRaised>>
          ELSE /\ h5file' = [k \in DOMAIN h5file \cup {exp_group_name} |->
                                IF k = exp_group_name THEN NewGroup(description)
                                                      ELSE h5file[k]]
               /\ UNCHANGED stRaised
    /\ stFirst' = IF stStops = 0 THEN h5file' ELSE stFirst
    /\ UNCHANGED <<USE_MOCAP, MOCAP_AVAILABLE, stIds, stPath, exp_group_name,
                   stBuffer>>

InitStore == BaseIdle /\ StInit /\ CsvIdle /\ WvIdle /\ WgIdle /\ TgIdle /\ AsIdle /\ PqIdle
             /\ RpIdle
             /\ MsIdle
             /\ ClIdle
             /\ SvIdle
             /\ GnIdle
             /\ LkIdle

NextStore == start \/ DataLogger_log \/ DataLogger_stop

SpecStore == InitStore /\ [][NextStore]_vars

\* C21: DataLogger.stop is idempotent: a second call after a first call that
\* stored the experiment does not raise and leaves the file exactly as the
\* first call left it.
C21_StopIdempotent ==
    (stStops >= 2 /\ exp_group_name \in DOMAIN stFirst) =>
        (~stRaised /\ h5file = stFirst)

\* stop was called twice, the first call stored the group, and a row was
\* logged between the two calls
C21_Witness ==
    /\ stStops >= 2
    /\ exp_group_name \in DOMAIN stFirst
    /\ Len(stBuffer) > stFirst[exp_group_name].attrs.sample_count

\* C22: in every persisted experiment the column names are time, pd_<id> per
\* channel, pm_<id>_1..4 per channel, then the 21 pose columns exactly when
\* pose values are logged; every stored row has as many values as there are
\* column names, in the same order.
C22_ColumnsMatchRows ==
    \A name \in DOMAIN h5file :
        \A r \in 1..Len(h5file[name].data) :
            /\ Len(h5file[name].columns) = Len(h5file[name].data[r].vals)
            /\ h5file[name].columns = h5file[name].data[r].origin

\* runs of vtech.py followed on one day
MaxRuns == 2

\* f"Test_{self.NArs[0]}_{experiment_number}.csv"
TestFile(ar, n) == [stem |-> "Test", ar |-> ar, field |-> Digits(n), ext |-> "csv"]

\* re.search(r"Test_\d+_(\d+)\.csv", f)
Matches(f) == f.stem = "Test" /\ IsInt(f.field) /\ f.ext = "csv"

\* existing_numbers
CsvNumbers(dir) == {ParseInt(f.field) : f \in {f \in dir : Matches(f)}}

\* names the day's directory may hold
CsvSamples ==
    {TestFile(8, 1), TestFile(8, 3), TestFile(4, 10),
     [stem |-> "Test", ar |-> 8, field |-> <<-1>>, ext |-> "csv"],
     [stem |-> "notes", ar |-> 0, field |-> <<>>, ext |-> "txt"]}

CsvInit ==
    /\ csvDir \in SUBSET CsvSamples
    /\ file_name = NoFile
    /\ csvBefore = {}

CsvStep ==
    UNCHANGED <<baseVars, stVars, wvVars, wgVars, tgVars, asVars, pqVars,
                rpVars, msVars, clVars, svVars, gnVars, lkVars>>

\* PressureController.experiment_number, called by th_data_exchange_high
experiment_number ==
    /\ CsvStep
    /\ file_name = NoFile \/ file_name \in csvDir
    /\ Cardinality(csvDir \ CsvSamples) < MaxRuns
    /\ file_name' = TestFile(NArs[1], MaxPlusOne(CsvNumbers(csvDir)))
    /\ csvBefore' = csvDir
    /\ UNCHANGED csvDir

\* th_data_exchange_high: with open(file_name, "w+") as data_file
open_file ==
    /\ CsvStep
    /\ file_name # NoFile
    /\ file_name \notin csvDir
    /\ csvDir' = csvDir \cup {file_name}
    /\ UNCHANGED <<file_name, csvBefore>>

InitNumbering ==
    /\ BaseIdle
    /\ StInit /\ USE_MOCAP /\ MOCAP_AVAILABLE /\ stIds = ARDUINO_IDS_SHIPPED
    /\ CsvInit
    /\ WvIdle
    /\ WgIdle
    /\ TgIdle
    /\ AsIdle
    /\ PqIdle
    /\ RpIdle
    /\ MsIdle
    /\ ClIdle
    /\ SvIdle
    /\ GnIdle
    /\ LkIdle

NextNumbering == start \/ experiment_number \/ open_file

SpecNumbering == InitNumbering /\ [][NextNumbering]_vars

\* n is 1 plus the greatest of the existing numbers, 1 when there are none
NumberIsNext(n, existing) ==
    /\ existing = {} => n = 1
    /\ existing # {} => (n - 1) \in existing /\ \A e \in existing : e < n

\* C23: the number given to a new experiment is 1 plus the maximum number
\* among the existing experiments of the target file or directory, and 1
\* when there are none, so it exceeds every existing number, gaps or not.
C23_NextNumberIsMaxPlusOne ==
    /\ stPath =>
          NumberIsNext(ParseInt(exp_group_name.field),
                       ExpNumbers(DOMAIN h5file \ {exp_group_name}))
    /\ file_name # NoFile =>
          NumberIsNext(ParseInt(file_name.field), CsvNumbers(csvBefore))

\* both programs numbered a new experiment 4 after existing 1 and 3
C23_Witness ==
    /\ stPath
    /\ ExpNumbers(DOMAIN h5file) = {1, 3}
    /\ exp_group_name.field = <<0, 0, 4>>
    /\ file_name # NoFile
    /\ CsvNumbers(csvBefore) = {1, 3}
    /\ file_name.field = <<4>>

(***************************************************************************)
(* The range of the pressures the main.py session writes                   *)
(***************************************************************************)
\* the raw value of circular's formula for channel i (0-based) at sample n
circular_raw(i, n) ==
    circular_WAVE_CENTER + circular_WAVE_AMPLITUDE * SinQ(n + ((i - 1) % 4))

\* C24: every value the wave routines and graceful_rampdown write to
\* Controller.desired lies within [0, 100] psi, also when center plus or
\* minus amplitude falls outside that range.
C24_DesiredWithinRange ==
    \A c \in Channels : 0 <= desired[c] /\ desired[c] <= 100 * PSI

\* circular has written a channel whose raw value is negative
C24_Witness ==
    /\ WAVE_FUNCTION = "circular"
    /\ pc["wave"] = "c_send"
    /\ \E c \in Channels, n \in SessionSamples :
          /\ circular_raw(c - 1, n) < 0
          /\ desired = [d \in Channels |-> circular_p(d - 1, n)]

(***************************************************************************)
(* The loop bodies of circular and elliptical, channel by channel          *)
(* (specification SpecPhases)                                              *)
(***************************************************************************)
\* the routine starts with Controller.__init__'s zeros; start = time.time()
WvInit ==
    /\ wvRoutine \in {"circular", "elliptical"}
    /\ wvT = 0
    /\ wvI = 0
    /\ wvDesired = Zeros

WvStep ==
    UNCHANGED <<baseVars, stVars, csvVars, wgVars, tgVars, asVars, pqVars,
                rpVars, msVars, clVars, svVars, gnVars, lkVars>>

\* circular: one pass of "for i in range(0, len(ARDUINO_IDS))"
circular_for ==
    /\ WvStep
    /\ wvRoutine = "circular"
    /\ wvI < NumChannels
    /\ wvDesired' = [wvDesired EXCEPT ![wvI + 1] = circular_p(wvI, wvT)]
    /\ wvI' = wvI + 1
    /\ UNCHANGED <<wvRoutine, wvT>>

\* elliptical: one pass of "for i in range(len(ARDUINO_IDS))"
elliptical_for ==
    /\ WvStep
    /\ wvRoutine = "elliptical"
    /\ wvI < NumChannels
    /\ wvDesired' = [wvDesired EXCEPT ![wvI + 1] = elliptical_p(wvI, wvT)]
    /\ wvI' = wvI + 1
    /\ UNCHANGED <<wvRoutine, wvT>>

\* controller.send_all(); time.sleep(0.01); t = time.time() - start
next_pass ==
    /\ WvStep
    /\ wvI = NumChannels
    /\ wvT' \in QuarterSamples
    /\ wvI' = 0
    /\ UNCHANGED <<wvRoutine, wvDesired>>

InitPhases == BaseIdle /\ StIdle /\ CsvIdle /\ WvInit /\ WgIdle /\ TgIdle /\ AsIdle /\ PqIdle
             /\ RpIdle
             /\ MsIdle
             /\ ClIdle
             /\ SvIdle
             /\ GnIdle
             /\ LkIdle

NextPhases == circular_for \/ elliptical_for \/ next_pass

SpecPhases == InitPhases /\ [][NextPhases]_vars

\* C27: in circular, the channel at position k (k = 0..3) is driven by
\* center + amplitude * sin(2 pi f t + 2 pi k / 4), clamped to the pressure
\* range: channel k has the phase with index k.
C27_PhaseIndexIsChannelIndex ==
    wvRoutine = "circular" =>
        \A k \in 0..(wvI - 1) :
            wvDesired[k + 1] =
                Clamp(0, 100 * PSI,
                      circular_WAVE_CENTER + circular_WAVE_AMPLITUDE * SinQ(wvT + k))

\* C29: during circular the first channel is held at 2.0 psi, while the
\* remaining channels follow the phase-shifted sinusoid.
C29_FirstChannelHeld ==
    (wvRoutine = "circular" /\ wvI >= 1) =>
        /\ wvDesired[1] = 2 * PSI
        /\ \A k \in 1..(wvI - 1) : wvDesired[k + 1] = circular_p(k, wvT)

(***************************************************************************)
(* wave_generation.py's signal generators and                              *)
(* PressureController.pres_wave_controlled_response                        *)
(* (specification SpecWaveGen).  Pressures are in psi, times in seconds;   *)
(* the periodic generators run at 0.25 Hz, so a second is a quarter period.*)
(***************************************************************************)
\* SignalParameters defaults
sp_duration == 10
sp_step_value == 5
sp_step_time == 1
sp_ramp_start == 0
sp_ramp_end == 10
sp_ramp_up_rate == 1
sp_ramp_down_rate == 1
sp_ramp_hold_time == 2

SignalTypes == {"step", "ramp", "sine", "square", "triangle", "custom"}

\* amplitudes and offsets a channel is set up with
WgAmplitudes == {1, 3}
WgOffsets == {0, 2}

\* custom_function: None, one that raises, one returning -1, one returning 1
WgCustoms == {"none", "raises", "neg", "pos"}

\* elapsed times sampled: up to one second past the generator's duration
WgTimes == 0..(sp_duration + 1)

\* np.sign
Sign(x) == IF x > 0 THEN 1 ELSE IF x < 0 THEN -1 ELSE 0

\* StepSignalGenerator.generate
StepGenerate(g, t) ==
    IF t >= sp_step_time THEN sp_step_value + g.offset ELSE g.offset

\* RampSignalGenerator.generate
RampGenerate(g, t) ==
    LET ramp_up_duration == (sp_ramp_end - sp_ramp_start) \div sp_ramp_up_rate
        hold_end == ramp_up_duration + sp_ramp_hold_time
        ramp_down_duration == (sp_ramp_end - sp_ramp_start) \div sp_ramp_down_rate
        value == IF t <= ramp_up_duration
                 THEN sp_ramp_start + sp_ramp_up_rate * t
                 ELSE IF t <= hold_end
                 THEN sp_ramp_end
                 ELSE IF t <= hold_end + ramp_down_duration
                 THEN sp_ramp_end - sp_ramp_down_rate * (t - hold_end)
                 ELSE sp_ramp_start
    IN  value + g.offset

\* SineSignalGenerator.generate
SineGenerate(g, t) == g.amplitude * SinQ(t) + g.offset

\* SquareSignalGenerator.generate
SquareGenerate(g, t) == g.amplitude * Sign(SinQ(t)) + g.offset

\* TriangleSignalGenerator.generate, with period = 4 and phase = 0
TriangleGenerate(g, t) ==
    LET t_normalized == t % 4
    IN  (IF t_normalized < 2 THEN g.amplitude * (t_normalized - 1)
                             ELSE g.amplitude * (3 - t_normalized)) + g.offset

\* CustomSignalGenerator.generate
CustomGenerate(g, t) ==
    CASE g.custom \in {"none", "raises"} -> g.offset
      [] g.custom = "neg" -> g.amplitude * (-1) + g.offset
      [] g.custom = "pos" -> g.amplitude * 1 + g.offset

\* generator.generate(t)
Generate(g, t) ==
    CASE g.type = "step" -> StepGenerate(g, t)
      [] g.type = "ramp" -> RampGenerate(g, t)
      [] g.type = "sine" -> SineGenerate(g, t)
      [] g.type = "square" -> SquareGenerate(g, t)
      [] g.type = "triangle" -> TriangleGenerate(g, t)
      [] g.type = "custom" -> CustomGenerate(g, t)

\* BaseSignalGenerator.get_current_value, reached through
\* MultiChannelSignalGenerator.get_all_values
get_all_values(g, is_running, t) ==
    IF g.type = "none" \/ ~is_running THEN 0
    ELSE IF t > sp_duration THEN g.offset
    ELSE Generate(g, t)

\* set_channel_generator, or no generator for the channel
WgInit ==
    /\ wgGen \in {NoGenerator}
                  \cup {[type |-> ty, amplitude |-> a, offset |-> o, custom |-> "none"] :
                          ty \in SignalTypes \ {"custom"}, a \in WgAmplitudes,
                          o \in WgOffsets}
                  \cup {[type |-> "custom", amplitude |-> a, offset |-> o, custom |-> c] :
                          a \in WgAmplitudes, o \in WgOffsets, c \in WgCustoms}
    /\ wgRunning = FALSE
    /\ wgT = 0
    /\ wgPd = 0

WgStep ==
    UNCHANGED <<baseVars, stVars, csvVars, wvVars, tgVars, asVars, pqVars,
                rpVars, msVars, clVars, svVars, gnVars, lkVars>>

\* PressureController.start_wave_generation: start_all
start_wave_generation ==
    /\ WgStep
    /\ ~wgRunning
    /\ wgGen.type # "none"
    /\ wgRunning' = TRUE
    /\ wgT' = 0
    /\ UNCHANGED <<wgGen, wgPd>>

\* one pass of pres_wave_controlled_response's loop:
\* self.pd_array_1[i] = generated_pressures[i]
pres_wave_controlled_response ==
    /\ WgStep
    /\ \E t \in WgTimes :
          /\ t >= wgT
          /\ wgT' = t
          /\ wgPd' = get_all_values(wgGen, wgRunning, t)
          /\ wgRunning' = (wgRunning /\ ~(t > sp_duration))
    /\ UNCHANGED wgGen

InitWaveGen == BaseIdle /\ StIdle /\ CsvIdle /\ WvIdle /\ WgInit /\ TgIdle /\ AsIdle /\ PqIdle
             /\ RpIdle
             /\ MsIdle
             /\ ClIdle
             /\ SvIdle
             /\ GnIdle
             /\ LkIdle

NextWaveGen == start_wave_generation \/ pres_wave_controlled_response

SpecWaveGen == InitWaveGen /\ [][NextWaveGen]_vars

\* C25: every value pres_wave_controlled_response writes to pd_array_1 from
\* the channel generators is at least the lower bound lo = 0, also when the
\* generator's raw output is negative (the routine has no upper bound of its
\* own, so the lower bound is the part stated here).
C25_WrittenWithinBounds == 0 <= wgPd

(***************************************************************************)
(* pressure_triangular_response and pres_single_triangular_response,       *)
(* sampled every tick over two periods (specification SpecTriangle).       *)
(* Pressures are in psi; a quarter period is TgQuarter ticks.              *)
(***************************************************************************)
\* ticks per quarter period
TgQuarter == 2

\* period = 1.0 / frequency; half_period = period / 2.0
TgPeriod == 4 * TgQuarter
TgHalf == TgPeriod \div 2

\* bounds a trial is called with: the amplitude is a whole number of psi
\* per tick
TgBoundSamples ==
    {[lower |-> l, upper |-> l + k * TgHalf] : l \in {0, 1}, k \in {1, 2}}

\* a wave that keeps rising through the second half of the period
RisingOnly(lower, upper, t_elapsed) ==
    lower + ((upper - lower) * (t_elapsed % TgPeriod)) \div TgHalf

\* t_cycle = t_elapsed % period, then the rising or the falling half
current_pressure(lower, upper, t_elapsed) ==
    LET amplitude == upper - lower
        t_cycle == t_elapsed % TgPeriod
    IN  IF t_cycle <= TgHalf
        THEN lower + (amplitude * t_cycle) \div TgHalf
        ELSE upper - (amplitude * (t_cycle - TgHalf)) \div TgHalf

TgInit ==
    /\ tgRoutine \in {"pressure_triangular_response",
                      "pres_single_triangular_response"}
    /\ tgBounds \in TgBoundSamples
    /\ tgN \in {1, 2}
    /\ tgT = 0
    /\ tgPd = [i \in 1..tgN |-> 0]
    /\ tgTrace = <<>>

TgStep ==
    UNCHANGED <<baseVars, stVars, csvVars, wvVars, wgVars, asVars, pqVars,
                rpVars, msVars, clVars, svVars, gnVars, lkVars>>

\* one pass of the loop: every channel gets current_pressure
TgPass ==
    /\ tgT <= 2 * TgPeriod
    /\ tgPd' = [i \in 1..tgN |->
                    current_pressure(tgBounds.lower, tgBounds.upper, tgT)]
    /\ tgTrace' = Append(tgTrace,
                         current_pressure(tgBounds.lower, tgBounds.upper, tgT))
    /\ tgT' = tgT + 1
    /\ UNCHANGED <<tgRoutine, tgBounds, tgN>>

\* wave_functions.pressure_triangular_response
pressure_triangular_response ==
    /\ TgStep
    /\ tgRoutine = "pressure_triangular_response"
    /\ TgPass

\* PressureController.pres_single_triangular_response
triangular_response_pass ==
    /\ TgStep
    /\ tgRoutine = "pres_single_triangular_response"
    /\ TgPass

InitTriangle == BaseIdle /\ StIdle /\ CsvIdle /\ WvIdle /\ WgIdle /\ TgInit /\ AsIdle /\ PqIdle
             /\ RpIdle
             /\ MsIdle
             /\ ClIdle
             /\ SvIdle
             /\ GnIdle
             /\ LkIdle

NextTriangle == pressure_triangular_response \/ triangular_response_pass

SpecTriangle == InitTriangle /\ [][NextTriangle]_vars

\* the value the trace holds for elapsed time t
TgAt(t) == tgTrace[t + 1]

\* C26: the triangular routine commands lower, (lower+upper)/2, upper,
\* (lower+upper)/2 and lower at elapsed times 0, T/4, T/2, 3T/4 and T, rises
\* linearly in the first half-period and falls linearly in the second, has
\* the same value at t and t + T, and gives every channel the same value.
C26_TriangularShape ==
    LET lower == tgBounds.lower
        upper == tgBounds.upper
        mid == (lower + upper) \div 2
        rate == (upper - lower) \div TgHalf
        seen == 0..(Len(tgTrace) - 1)
    IN  /\ 0 \in seen => TgAt(0) = lower
        /\ TgQuarter \in seen => TgAt(TgQuarter) = mid
        /\ 2 * TgQuarter \in seen => TgAt(2 * TgQuarter) = upper
        /\ 3 * TgQuarter \in seen => TgAt(3 * TgQuarter) = mid
        /\ TgPeriod \in seen => TgAt(TgPeriod) = lower
        /\ \A t \in seen :
              /\ (t + 1 \in seen /\ t % TgPeriod < TgHalf) =>
                    TgAt(t + 1) - TgAt(t) = rate
              /\ (t + 1 \in seen /\ t % TgPeriod >= TgHalf) =>
                    TgAt(t + 1) - TgAt(t) = -rate
              /\ t + TgPeriod \in seen => TgAt(t + TgPeriod) = TgAt(t)
        /\ tgTrace # <<>> =>
              \A i \in 1..tgN : tgPd[i] = tgTrace[Len(tgTrace)]

\* two channels were driven through two whole periods from a lower bound
\* above zero
C26_Witness ==
    /\ Len(tgTrace) = 2 * TgPeriod + 1
    /\ tgN = 2
    /\ tgBounds.lower > 0

(***************************************************************************)
(* PressureController.ard_socket, byte by byte, and the assignment         *)
(* self.pm_array_1[i] = self.ard_socket(...) (specification SpecArd)       *)
(***************************************************************************)
\* what the actuator delivers after the command: nothing, a part of a frame,
\* one frame, or a frame followed by a part of the next
AsStreams ==
    {<<>>, SubSeq(Frame2, 1, 3), Frame1, Frame2, Frame2 \o SubSeq(Frame1, 1, 4)}

AsInit ==
    /\ asPc = "send"
    /\ asStream \in AsStreams
    /\ asPeerCloses \in BOOLEAN
    /\ received_data = <<>>
    /\ asPm \in {PmList(Fallback), PmList(Sensors(Frame1))}

AsStep ==
    UNCHANGED <<baseVars, stVars, csvVars, wvVars, wgVars, tgVars, pqVars,
                rpVars, msVars, clVars, svVars, gnVars, lkVars>>

\* client.send(packed_data); received_data = b""
ard_socket_send ==
    /\ AsStep
    /\ asPc = "send"
    /\ asPc' = "recv"
    /\ UNCHANGED <<asStream, asPeerCloses, received_data, asPm>>

\* while len(received_data) < 8: chunk = client.recv(8): up to 8 of the bytes
\* that arrived, b"" on a closed connection (then break); with no byte
\* arrived and the connection open the call blocks
ard_socket_recv ==
    /\ AsStep
    /\ asPc = "recv"
    /\ IF Len(received_data) >= FRAME_SIZE
       THEN /\ asPc' = "check"
            /\ UNCHANGED <<asStream, received_data>>
       ELSE IF asStream = <<>>
       THEN /\ asPeerCloses
            /\ asPc' = "check"
            /\ UNCHANGED <<asStream, received_data>>
       ELSE \E n \in 1..Min(FRAME_SIZE, Len(asStream)) :
               /\ received_data' = received_data \o SubSeq(asStream, 1, n)
               /\ asStream' = SubSeq(asStream, n + 1, Len(asStream))
               /\ UNCHANGED asPc
    /\ UNCHANGED <<asPeerCloses, asPm>>

\* what a short read makes ard_socket return
ShortReadResult == PmNone

\* if len(received_data) < 8: return None; otherwise struct.unpack(">4h",
\* received_data), which raises struct.error unless exactly 8 bytes are
\* there, and the calibration.  The caller stores what is returned.
ard_socket_return ==
    /\ AsStep
    /\ asPc = "check"
    /\ IF Len(received_data) < FRAME_SIZE
       THEN /\ asPm' = ShortReadResult
            /\ asPc' = "returned"
       ELSE IF Len(received_data) > FRAME_SIZE
       THEN /\ asPc' = "struct.error"
            /\ UNCHANGED asPm
       ELSE /\ asPm' = PmList(Sensors(received_data))
            /\ asPc' = "returned"
    /\ UNCHANGED <<asStream, asPeerCloses, received_data>>

InitArd ==
    BaseIdle /\ StIdle /\ CsvIdle /\ WvIdle /\ WgIdle /\ TgIdle /\ AsInit
             /\ PqIdle
             /\ RpIdle
             /\ MsIdle
             /\ ClIdle
             /\ SvIdle
             /\ GnIdle
             /\ LkIdle

NextArd == ard_socket_send \/ ard_socket_recv \/ ard_socket_return

SpecArd == InitArd /\ [][NextArd]_vars

\* C28: when the connection is closed or fewer than 8 response bytes arrive,
\* ard_socket returns a zero-filled 4-element reading, so the channel's
\* measured row is set to zeros.
C28_ShortReadGivesZeros ==
    (asPc = "returned" /\ Len(received_data) < FRAME_SIZE) =>
        asPm = PmList(Fallback)

(***************************************************************************)
(* wave_functions.py: pressure_sequential_custom_response as               *)
(* test_robot_positioning.py runs it, with NArs = [4, 7, 8]                *)
(* (specification SpecPositioning).  Pressures are in psi, a tick is one   *)
(* second.                                                                 *)
(***************************************************************************)
\* client.NArs and client.pressure_array of test_pressure_control
positioning_NArs == <<4, 7, 8>>
positioning_pressure_array == <<5, 10, 10>>

\* defaults of the routine's parameters
sq_initial_delay == 2
sq_ramp_up_rate == 5
sq_ramp_down_rate == 5
sq_hold_time == 1
sq_stabilization_time == 1

\* arduino_indices.get(id) and target_pressures.get(id)
PqIdx(id) == IndexOf(positioning_NArs, id)
PqTarget(id) == positioning_pressure_array[PqIdx(id)]

\* "if arduino_id == 4: arduino_4_pressure else 0.0"
PqReset == [i \in 1..Len(positioning_NArs) |->
               IF positioning_NArs[i] = 4 THEN PqTarget(4) ELSE 0]

\* the phase loops in program order
PqPhases == <<"ramp_up_4", "stabilize_4", "initial_delay", "ramp_up_8",
              "stabilize_8", "combined_hold", "ramp_down_8",
              "return_stabilization", "inter_cycle">>

\* how long the phase loop runs
PqLength(ph) ==
    CASE ph = "ramp_up_4" -> PqTarget(4) \div sq_ramp_up_rate
      [] ph = "ramp_up_8" -> PqTarget(8) \div sq_ramp_up_rate
      [] ph = "ramp_down_8" -> pqStart \div sq_ramp_down_rate
      [] ph = "initial_delay" -> sq_initial_delay
      [] ph \in {"combined_hold", "inter_cycle"} -> sq_hold_time
      [] ph \in {"stabilize_4", "stabilize_8", "return_stabilization"} ->
             sq_stabilization_time

\* what one pass of the phase loop writes to pd_array_1
PqWrite(ph) ==
    CASE ph = "ramp_up_4" ->
             [pqPd EXCEPT ![PqIdx(4)] = Min(PqTarget(4), pqTick * sq_ramp_up_rate)]
      [] ph = "stabilize_4" -> [pqPd EXCEPT ![PqIdx(4)] = PqTarget(4)]
      [] ph = "initial_delay" -> pqPd
      [] ph = "ramp_up_8" ->
             [pqPd EXCEPT ![PqIdx(8)] = Min(PqTarget(8), pqTick * sq_ramp_up_rate)]
      [] ph = "stabilize_8" -> [pqPd EXCEPT ![PqIdx(8)] = PqTarget(8)]
      [] ph = "combined_hold" ->
             [pqPd EXCEPT ![PqIdx(4)] = PqTarget(4), ![PqIdx(8)] = PqTarget(8)]
      [] ph = "ramp_down_8" ->
             [pqPd EXCEPT ![PqIdx(8)] = Max(0, pqStart - pqTick * sq_ramp_down_rate)]
      [] ph = "return_stabilization" -> [pqPd EXCEPT ![PqIdx(8)] = 0]
      [] ph = "inter_cycle" -> PqReset

\* the loops whose condition is the elapsed time alone: they test the flags
\* (return) and then the end time (break) in the body; the other loops have
\* "and time.time() < experiment_end_time" in their condition
PqRampLoops == {"ramp_up_4", "initial_delay", "ramp_up_8", "ramp_down_8"}

\* the phase after a phase loop while the end time has not come; once it has
\* come every later block is skipped up to the final cleanup
PqNext(ph) ==
    CASE ph = "ramp_up_4" -> "stabilize_4"
      [] ph = "stabilize_4" -> "cycle"
      [] ph = "initial_delay" -> "ramp_up_8"
      [] ph = "ramp_up_8" -> "stabilize_8"
      [] ph = "stabilize_8" -> "combined_hold"
      [] ph = "combined_hold" -> "ramp_down_8"
      [] ph = "ramp_down_8" -> "return_stabilization"
      [] ph = "return_stabilization" ->
             IF pqCycle > 1 THEN "inter_cycle" ELSE "cycle"
      [] ph = "inter_cycle" -> "cycle"

\* the routine is entered with the flags set: pd_array_1[i] = 0.0 for all i
PqInit ==
    /\ pqPhase = "ramp_up_4"
    /\ pqTick = 0
    /\ pqPd = <<0, 0, 0>>
    /\ pqStart = 0
    /\ pqCycle = 0
    /\ pqFlags = TRUE
    /\ pqEnded = FALSE
    /\ pqSent = <<>>

PqStep ==
    UNCHANGED <<baseVars, stVars, csvVars, wvVars, wgVars, tgVars, asVars,
                rpVars, msVars, clVars, svVars, gnVars, lkVars>>

\* one test of a phase loop's condition and, if it holds, one pass of its
\* body
positioning_phase ==
    /\ PqStep
    /\ \E k \in 1..Len(PqPhases) : pqPhase = PqPhases[k]
    /\ LET inLoop == pqTick < PqLength(pqPhase)
           entered == inLoop /\ (pqPhase \in PqRampLoops \/ ~pqEnded)
       IN  IF entered /\ ~pqFlags
           THEN /\ pqPhase' = "returned"
                /\ UNCHANGED <<pqTick, pqPd, pqStart, pqSent>>
           ELSE IF entered /\ ~pqEnded
           THEN /\ pqPd' = PqWrite(pqPhase)
                /\ pqSent' = pqPd'
                /\ pqTick' = pqTick + 1
                /\ UNCHANGED <<pqPhase, pqStart>>
           ELSE /\ pqPhase' = IF pqEnded THEN "final" ELSE PqNext(pqPhase)
                /\ pqTick' = 0
                /\ UNCHANGED pqSent
                /\ pqPd' = IF pqPhase = "ramp_down_8"
                           THEN [pqPd EXCEPT ![PqIdx(8)] = 0] ELSE pqPd
                /\ pqStart' = IF pqPhase = "combined_hold" THEN pqPd[PqIdx(8)]
                                                           ELSE pqStart
    /\ UNCHANGED <<pqCycle, pqFlags, pqEnded>>

\* the head of the cycle loop: while time.time() < experiment_end_time:
\* cycle_count += 1; break if too little time remains for a cycle; Arduino 4
\* is kept, the others are set to 0.0
positioning_cycle ==
    /\ PqStep
    /\ pqPhase = "cycle"
    /\ IF pqEnded
       THEN /\ pqPhase' = "final"
            /\ UNCHANGED <<pqPd, pqCycle>>
       ELSE /\ pqCycle < MaxCycles
            /\ pqCycle' = pqCycle + 1
            /\ \E insufficient \in BOOLEAN :
                  IF insufficient
                  THEN /\ pqPhase' = "final"
                       /\ UNCHANGED pqPd
                  ELSE /\ pqPd' = PqReset
                       /\ pqPhase' = IF pqCycle = 0 THEN "initial_delay"
                                                    ELSE "ramp_up_8"
    /\ pqTick' = 0
    /\ UNCHANGED <<pqStart, pqFlags, pqEnded, pqSent>>

\* after the cycle loop: Arduino 4 is kept, 7 and 8 are set to 0.0 and sent
positioning_final ==
    /\ PqStep
    /\ pqPhase = "final"
    /\ pqPd' = PqReset
    /\ pqSent' = pqPd'
    /\ pqPhase' = "returned"
    /\ UNCHANGED <<pqTick, pqStart, pqCycle, pqFlags, pqEnded>>

\* the experiment's duration elapses
positioning_time_up ==
    /\ PqStep
    /\ ~pqEnded
    /\ pqPhase \notin {"returned", "idle"}
    /\ pqEnded' = TRUE
    /\ UNCHANGED <<pqPhase, pqTick, pqPd, pqStart, pqCycle, pqFlags, pqSent>>

\* stop_experiment clears th1_flag and th2_flag
positioning_stop ==
    /\ PqStep
    /\ pqFlags
    /\ pqPhase \notin {"returned", "idle"}
    /\ pqFlags' = FALSE
    /\ UNCHANGED <<pqPhase, pqTick, pqPd, pqStart, pqCycle, pqEnded, pqSent>>

InitPositioning ==
    BaseIdle /\ StIdle /\ CsvIdle /\ WvIdle /\ WgIdle /\ TgIdle /\ AsIdle
             /\ PqInit
             /\ RpIdle
             /\ MsIdle
             /\ ClIdle
             /\ SvIdle
             /\ GnIdle
             /\ LkIdle

NextPositioning ==
    \/ positioning_phase
    \/ positioning_cycle
    \/ positioning_final
    \/ positioning_time_up
    \/ positioning_stop

SpecPositioning == InitPositioning /\ [][NextPositioning]_vars

\* C30: with channels [4, 7, 8], Arduino 4 is held at its target, Arduino 7
\* ramps up to its target before Arduino 8 ramps up, both are at their
\* targets during the combined stabilization, and Arduino 7 is ramped down
\* to 0 before Arduino 8 is.
C30_SevenThenEight ==
    /\ pqPhase \in {"ramp_up_8", "stabilize_8", "combined_hold"} =>
          /\ pqPd[PqIdx(4)] = PqTarget(4)
          /\ pqPd[PqIdx(7)] = PqTarget(7)
    /\ pqPhase \in {"ramp_down_8", "return_stabilization"} =>
          /\ pqPd[PqIdx(4)] = PqTarget(4)
          /\ pqPd[PqIdx(7)] = 0

\* C31: whenever the routine has returned, after the duration elapsed or
\* after the stop flags were cleared in the middle of a phase, the desired
\* pressures of Arduino 7 and Arduino 8 are 0 and the last command sent
\* carried these pressures.
C31_ZerosSentOnReturn ==
    pqPhase = "returned" =>
        /\ pqPd[PqIdx(7)] = 0
        /\ pqPd[PqIdx(8)] = 0
        /\ pqSent = pqPd

(***************************************************************************)
(* vtech.py: PressureController.pres_single_ramp_response                  *)
(* (specification SpecRamp).  Pressures are in psi, times in seconds.      *)
(***************************************************************************)
\* channel lists with and without the Arduino id 4, at several positions
RpLists == {<<4, 7, 8>>, <<7, 8>>, <<3, 4>>, <<8, 4, 6>>}

\* the arguments: (upper_bound - lower_bound) is a multiple of the rates
RpBoundSamples ==
    {[up_rate |-> u, down_rate |-> d, upper_bound |-> l + 2, lower_bound |-> l] :
        u \in {1, 2}, d \in {1, 2}, l \in {0, 1}}

\* what pd_array_1 holds on entry: zeros, or the 5 psi of an earlier step
RpEntryPressures == {0, 5}

\* how far time.time() can advance over one pass (sleep of 0.02 s and the
\* exchanges)
RpAdvances == {1, 2}

\* a write that sets every channel, for comparison
WriteEvery(pd, i, v) == [j \in 1..Len(pd) |-> v]

\* self.pd_array_1[i] = v
RampWrite(pd, i, v) == [pd EXCEPT ![i] = v]

\* ramp_duration = (upper_bound - lower_bound) / rate
ramp_duration(part) ==
    (rpBounds.upper_bound - rpBounds.lower_bound)
        \div (IF part = "up" THEN rpBounds.up_rate ELSE rpBounds.down_rate)

\* lower_bound + up_rate * t_elapsed, upper_bound - down_rate * t_elapsed
RampAt(part, t) ==
    IF part = "up" THEN rpBounds.lower_bound + rpBounds.up_rate * t
                   ELSE rpBounds.upper_bound - rpBounds.down_rate * t

\* the pressure a channel is locked at after its ramp
RampLock(part) ==
    IF part = "up" THEN rpBounds.upper_bound ELSE rpBounds.lower_bound

RpInit ==
    /\ rpNArs \in RpLists
    /\ rpBounds \in RpBoundSamples
    /\ \E p \in RpEntryPressures : rpPd = [j \in 1..Len(rpNArs) |-> p]
    /\ rpPart = "up"
    /\ rpI = 1
    /\ rpPc = "for"
    /\ rpT = 0
    /\ rpFlag = TRUE
    /\ rpSent = <<>>

RpStep ==
    UNCHANGED <<baseVars, stVars, csvVars, wvVars, wgVars, tgVars, asVars,
                pqVars, msVars, clVars, svVars, gnVars, lkVars>>

\* the head of "for i in range(len(self.NArs))" of either part: the stop
\* check, the skip of Arduino 4, the start of the ramp
ramp_for ==
    /\ RpStep
    /\ rpPart \in {"up", "down"}
    /\ rpPc = "for"
    /\ IF rpI > Len(rpNArs)
       THEN /\ rpPart' = IF rpPart = "up" THEN "pause" ELSE "returned"
            /\ UNCHANGED <<rpI, rpPc>>
       ELSE IF ~rpFlag
       THEN /\ rpPart' = "returned"
            /\ UNCHANGED <<rpI, rpPc>>
       ELSE IF rpNArs[rpI] = 4
       THEN /\ rpI' = rpI + 1
            /\ UNCHANGED <<rpPart, rpPc>>
       ELSE /\ rpPc' = "while"
            /\ UNCHANGED <<rpPart, rpI>>
    /\ rpT' = 0
    /\ UNCHANGED <<rpNArs, rpBounds, rpPd, rpFlag, rpSent>>

\* one pass of "while True": the stop check, the end of the ramp (with the
\* lock at the final pressure and the last update), or one write of the
\* ramp with the exchange of every channel
ramp_while ==
    /\ RpStep
    /\ rpPart \in {"up", "down"}
    /\ rpPc = "while"
    /\ IF ~rpFlag
       THEN /\ rpPart' = "returned"
            /\ UNCHANGED <<rpPd, rpSent, rpI, rpPc, rpT>>
       ELSE IF rpT > ramp_duration(rpPart)
       THEN /\ rpPd' = RampWrite(rpPd, rpI, RampLock(rpPart))
            /\ rpSent' = rpPd'
            /\ rpI' = rpI + 1
            /\ rpPc' = "for"
            /\ UNCHANGED <<rpPart, rpT>>
       ELSE /\ rpPd' = RampWrite(rpPd, rpI, RampAt(rpPart, rpT))
            /\ rpSent' = rpPd'
            /\ \E d \in RpAdvances : rpT' = rpT + d
            /\ UNCHANGED <<rpPart, rpI, rpPc>>
    /\ UNCHANGED <<rpNArs, rpBounds, rpFlag>>

\* time.sleep(2.0) between the parts
ramp_pause ==
    /\ RpStep
    /\ rpPart = "pause"
    /\ rpPart' = "down"
    /\ rpI' = 1
    /\ UNCHANGED <<rpNArs, rpBounds, rpPd, rpPc, rpT, rpFlag, rpSent>>

\* another thread clears th1_flag
ramp_stop ==
    /\ RpStep
    /\ rpPart \in {"up", "pause", "down"}
    /\ rpFlag
    /\ rpFlag' = FALSE
    /\ UNCHANGED <<rpNArs, rpBounds, rpPd, rpPart, rpI, rpPc, rpT, rpSent>>

\* except KeyboardInterrupt: self.th1_flag = 0, and the routine returns
ramp_keyboard_interrupt ==
    /\ RpStep
    /\ rpPart \in {"up", "pause", "down"}
    /\ rpFlag' = FALSE
    /\ rpPart' = "returned"
    /\ UNCHANGED <<rpNArs, rpBounds, rpPd, rpI, rpPc, rpT, rpSent>>

InitRamp ==
    BaseIdle /\ StIdle /\ CsvIdle /\ WvIdle /\ WgIdle /\ TgIdle /\ AsIdle
             /\ PqIdle
             /\ RpInit
             /\ MsIdle
             /\ ClIdle
             /\ SvIdle
             /\ GnIdle
             /\ LkIdle

NextRamp ==
    \/ ramp_for
    \/ ramp_while
    \/ ramp_pause
    \/ ramp_stop
    \/ ramp_keyboard_interrupt

SpecRamp == InitRamp /\ [][NextRamp]_vars

\* C32: the channels are ramped one at a time in list order: a step of the
\* routine changes the desired pressure of no channel but the one being
\* ramped, the index of that channel never goes back within a part, and the
\* channel with Arduino id 4 is never written.
C32_OneChannelAtATime ==
    [][/\ \A j \in 1..Len(rpNArs) :
             (j # rpI \/ rpNArs[j] = 4) => rpPd'[j] = rpPd[j]
       /\ rpPart' = rpPart => rpI' \in {rpI, rpI + 1}]_vars

\* a later channel is part of the way down its ramp while the channel
\* before it is back at the lower bound, the channel after it still at the
\* upper bound and Arduino 4 at its entry pressure
C32_Witness ==
    /\ rpNArs = <<8, 4, 6>>
    /\ rpPart = "down"
    /\ rpI = 3
    /\ rpPc = "while"
    /\ rpPd[1] = rpBounds.lower_bound
    /\ rpPd[2] = 5
    /\ rpPd[3] > rpBounds.lower_bound
    /\ rpPd[3] < rpBounds.upper_bound

(***************************************************************************)
(* wave_functions.py: the multi-channel routines circular,                 *)
(* circular_with_static_pressure, elliptical_motion and                    *)
(* elliptical_with_one_static (specification SpecMotion).  The tick's time *)
(* is sampled at twelfths of the period, where the phases of 90 and 120    *)
(* degrees fall on samples; sines are in thousandths and a pressure is     *)
(* rounded to the unit of 1/20 psi.                                        *)
(***************************************************************************)
\* 1000 * sin(k * pi / 6)
Sin12(k) ==
    CASE k % 12 \in {0, 6} -> 0
      [] k % 12 \in {1, 5} -> 500
      [] k % 12 \in {2, 4} -> 866
      [] k % 12 = 3 -> 1000
      [] k % 12 \in {7, 11} -> -500
      [] k % 12 \in {8, 10} -> -866
      [] k % 12 = 9 -> -1000

\* amp * sin(...), rounded to the unit
Scaled(amp, k) == (amp * Sin12(k) + 500) \div 1000

MsPlainRoutines == {"circular", "elliptical_motion"}
MsStaticRoutines == {"circular_with_static_pressure", "elliptical_with_one_static"}

\* the id of the channel the routine holds: client_instance.NArs.index(3),
\* static_arduino_id = 4; no id for the plain routines
StaticId(routine) ==
    CASE routine = "circular_with_static_pressure" -> 3
      [] routine = "elliptical_with_one_static" -> 4
      [] OTHER -> -1

\* constant_pressure = 2.0
constant_pressure == 2 * PSI

\* the lists phases of the routines, in twelfths of a turn
phases(routine) ==
    CASE routine \in MsPlainRoutines -> <<0, 3, 6, 9>>
      [] routine = "circular_with_static_pressure" -> <<0, 4, 8>>
      [] routine = "elliptical_with_one_static" -> <<0, 6, 3>>

\* the (0-based) index the routine reads phases at for channel i (from 1)
\* with phase_counter c: i % 4, phase_counter % 3, phase_counter
PhaseIndex(routine, i, c) ==
    CASE routine \in MsPlainRoutines -> (i - 1) % 4
      [] routine = "circular_with_static_pressure" -> c % 3
      [] routine = "elliptical_with_one_static" -> c

\* amp of the channel
MsAmp(routine, i, c) ==
    CASE routine \in {"circular", "circular_with_static_pressure"} -> wf_amp
      [] routine = "elliptical_motion" ->
             IF (i - 1) % 2 = 0 THEN wf_amp_x ELSE wf_amp_y
      [] routine = "elliptical_with_one_static" ->
             IF c < 2 THEN wf_amp_x ELSE wf_amp_y

\* p = max(0.0, min(100.0, center + amp * sin(2 pi f t + phi)))
MsValue(routine, i, c, t) ==
    Clamp(0, 100 * PSI,
          wf_center + Scaled(MsAmp(routine, i, c),
                             t + phases(routine)[PhaseIndex(routine, i, c) + 1]))

\* "if client_instance.NArs[i] == 3: continue" and its like
NeverStatic(routine, id) == FALSE
IsStatic(routine, id) == routine \in MsStaticRoutines /\ id = StaticId(routine)

\* channel lists of up to 4 channels, with and without the ids 3 and 4
MsLists == {<<3, 4, 7, 8>>, <<3, 6, 7, 8>>, <<4, 6, 7, 8>>, <<4, 7, 8>>,
            <<7, 3>>, <<7, 8>>, <<8>>}

\* what pd_array_1 holds on entry: zeros, or the 5 psi of an earlier step
MsEntryPressures == {0, 5 * PSI}

\* how far the clock advances from one tick to the next, in twelfths
MsAdvances == {1, 2}

MsIds == {msNArs[j] : j \in 1..Len(msNArs)}

MsInit ==
    /\ msRoutine \in MsPlainRoutines \cup MsStaticRoutines
    /\ msNArs \in MsLists
    /\ \E p \in MsEntryPressures : msPd = [j \in 1..Len(msNArs) |-> p]
    /\ msPc = "setup"
    /\ msI = 0
    /\ msCounter = 0
    /\ msT = 0
    /\ msFlags = TRUE
    /\ msEnded = FALSE
    /\ msWarned = FALSE
    /\ msWritten = {}
    /\ msExchanged = {}

MsStep ==
    UNCHANGED <<baseVars, stVars, csvVars, wvVars, wgVars, tgVars, asVars,
                pqVars, rpVars, clVars, svVars, gnVars, lkVars>>

\* the pre-loop setup: the static routines look the static id up, set its
\* pressure and send it once, or print the warning (except ValueError)
motion_setup ==
    /\ MsStep
    /\ msPc = "setup"
    /\ IF msRoutine \in MsStaticRoutines /\ StaticId(msRoutine) \in MsIds
       THEN /\ msPd' = [msPd EXCEPT
                           ![IndexOf(msNArs, StaticId(msRoutine))] =
                               constant_pressure]
            /\ msExchanged' = {IndexOf(msNArs, StaticId(msRoutine))}
            /\ UNCHANGED msWarned
       ELSE /\ msWarned' = (msRoutine \in MsStaticRoutines)
            /\ UNCHANGED <<msPd, msExchanged>>
    /\ msPc' = "while"
    /\ UNCHANGED <<msRoutine, msNArs, msI, msCounter, msT, msFlags, msEnded,
                   msWritten>>

\* while th1_flag and th2_flag and time.time() < end: t = time.time() - start
\* (after the time.sleep(0.01) of the tick before)
motion_while ==
    /\ MsStep
    /\ msPc = "while"
    /\ IF msFlags /\ ~msEnded
       THEN /\ msPc' = "for"
            /\ msI' = 1
            /\ msCounter' = 0
            /\ \E d \in MsAdvances : msT' = (msT + d) % 12
            /\ msWritten' = {}
            /\ msExchanged' = {}
       ELSE /\ msPc' = "returned"
            /\ UNCHANGED <<msI, msCounter, msT, msWritten, msExchanged>>
    /\ UNCHANGED <<msRoutine, msNArs, msPd, msFlags, msEnded, msWarned>>

\* one pass of "for i in range(len(client_instance.NArs))": the static
\* channel is skipped; phases[...] raises IndexError past the end of the
\* list; otherwise the channel is written and exchanged with its actuator
motion_for ==
    /\ MsStep
    /\ msPc = "for"
    /\ IF msI > Len(msNArs)
       THEN /\ msPc' = "while"
            /\ UNCHANGED <<msPd, msI, msCounter, msWritten, msExchanged>>
       ELSE IF IsStatic(msRoutine, msNArs[msI])
       THEN /\ msI' = msI + 1
            /\ UNCHANGED <<msPd, msPc, msCounter, msWritten, msExchanged>>
       ELSE IF PhaseIndex(msRoutine, msI, msCounter) >= Len(phases(msRoutine))
       THEN /\ msPc' = "raised"
            /\ UNCHANGED <<msPd, msI, msCounter, msWritten, msExchanged>>
       ELSE /\ msPd' = [msPd EXCEPT
                           ![msI] = MsValue(msRoutine, msI, msCounter, msT)]
            /\ msWritten' = msWritten \cup {msI}
            /\ msExchanged' = msExchanged \cup {msI}
            /\ msCounter' = msCounter + 1
            /\ msI' = msI + 1
            /\ UNCHANGED msPc
    /\ UNCHANGED <<msRoutine, msNArs, msT, msFlags, msEnded, msWarned>>

\* another thread clears th1_flag and th2_flag
motion_stop ==
    /\ MsStep
    /\ msPc \in {"setup", "while", "for"}
    /\ msFlags
    /\ msFlags' = FALSE
    /\ UNCHANGED <<msRoutine, msNArs, msPd, msPc, msI, msCounter, msT, msEnded,
                   msWarned, msWritten, msExchanged>>

\* the duration elapses
motion_time_up ==
    /\ MsStep
    /\ msPc \in {"setup", "while", "for"}
    /\ ~msEnded
    /\ msEnded' = TRUE
    /\ UNCHANGED <<msRoutine, msNArs, msPd, msPc, msI, msCounter, msT, msFlags,
                   msWarned, msWritten, msExchanged>>

InitMotion ==
    BaseIdle /\ StIdle /\ CsvIdle /\ WvIdle /\ WgIdle /\ TgIdle /\ AsIdle
             /\ PqIdle
             /\ RpIdle
             /\ MsInit
             /\ ClIdle
             /\ SvIdle
             /\ GnIdle
             /\ LkIdle

NextMotion ==
    \/ motion_setup
    \/ motion_while
    \/ motion_for
    \/ motion_stop
    \/ motion_time_up

SpecMotion == InitMotion /\ [][NextMotion]_vars

\* the channels of the list other than the static one
MsMovers == {j \in 1..Len(msNArs) : msNArs[j] # StaticId(msRoutine)}

\* C33: in the routines with a static channel, when the static id is in the
\* channel list, its desired pressure is 2.0 psi from the pre-loop setup on,
\* no pass of the loop writes it, and at the end of every tick every other
\* channel has been written in that tick.
C33_StaticChannelHeld ==
    (msRoutine \in MsStaticRoutines /\ StaticId(msRoutine) \in MsIds) =>
        /\ msPc \notin {"setup", "idle"} =>
              msPd[IndexOf(msNArs, StaticId(msRoutine))] = constant_pressure
        /\ IndexOf(msNArs, StaticId(msRoutine)) \notin msWritten
        /\ msPc # "raised"
        /\ (msPc = "for" /\ msI > Len(msNArs)) => msWritten = MsMovers

\* the three moving channels of a four-channel list have been rewritten in
\* a tick and the static channel holds 2.0 psi, not its entry pressure
C33_Witness ==
    /\ msRoutine \in MsStaticRoutines
    /\ StaticId(msRoutine) \in MsIds
    /\ Len(msNArs) = 4
    /\ msPc = "for"
    /\ msI > Len(msNArs)
    /\ Cardinality(msWritten) = 3
    /\ msPd[IndexOf(msNArs, StaticId(msRoutine))] = constant_pressure
    /\ \E j \in msWritten : msPd[j] # wf_center

\* C34: in a tick of circular and elliptical_motion, every channel's desired
\* pressure for the tick is written before the first exchange of the tick
\* with an actuator.
C34_WrittenBeforeExchange ==
    (msRoutine \in MsPlainRoutines /\ msPc = "for" /\ msExchanged # {}) =>
        msWritten = 1..Len(msNArs)

\* C36: when the static id is not in the channel list, the routines with a
\* static channel print the warning and then write every channel of the list
\* on every tick, and never raise.
C36_AbsentStaticDrivesAll ==
    (msRoutine \in MsStaticRoutines /\ StaticId(msRoutine) \notin MsIds) =>
        /\ msPc \notin {"setup", "idle"} => msWarned
        /\ msPc # "raised"
        /\ (msPc = "for" /\ msI > Len(msNArs)) => msWritten = 1..Len(msNArs)

(***************************************************************************)
(* main.py: ArduinoManager.cleanup; vtech.py: CommunicationManager.cleanup *)
(* (specification SpecCleanup).  The sockets of ArduinoManager are         *)
(* client_sockets + server_sockets; those of CommunicationManager are      *)
(* client_sockets followed by pub_socket and sub_socket.                   *)
(***************************************************************************)
MaxCleanups == 2

ClManagers == {"ArduinoManager", "CommunicationManager"}

\* numbers of sockets held
ClSizes == {2, 3, 4}

\* ArduinoManager: try: sock.close() except: pass, for each socket;
\* CommunicationManager: one try around the whole sequence of close() calls
ClosesAreGuardedEach(manager) == manager = "ArduinoManager"

ClInit ==
    /\ clManager \in ClManagers
    /\ \E n \in ClSizes :
          /\ clSockets = [j \in 1..n |-> "open"]
          /\ clFaulty \in SUBSET (1..n)
    /\ clPc = "idle"
    /\ clI = 0
    /\ clAttempted = {}
    /\ clCalls = 0
    /\ clPropagated = FALSE
    /\ clTermed = FALSE

ClStep ==
    UNCHANGED <<baseVars, stVars, csvVars, wvVars, wgVars, tgVars, asVars,
                pqVars, rpVars, msVars, svVars, gnVars, lkVars>>

\* cleanup() is called (again)
cleanup_call ==
    /\ ClStep
    /\ clPc \in {"idle", "done"}
    /\ clCalls < MaxCleanups
    /\ clCalls' = clCalls + 1
    /\ clPc' = "loop"
    /\ clI' = 1
    /\ clAttempted' = {}
    /\ clTermed' = FALSE
    /\ UNCHANGED <<clManager, clSockets, clFaulty, clPropagated>>

\* one close() of the sequence.  A close() that raises is passed over by
\* ArduinoManager; in CommunicationManager it ends the try block, and the
\* handler logs the error
cleanup_close ==
    /\ ClStep
    /\ clPc = "loop"
    /\ clI <= Len(clSockets)
    /\ clAttempted' = clAttempted \cup {clI}
    /\ IF clI \in clFaulty
       THEN /\ UNCHANGED clSockets
            /\ IF ClosesAreGuardedEach(clManager)
               THEN clI' = clI + 1 /\ UNCHANGED clPc
               ELSE clPc' = "done" /\ UNCHANGED clI
       ELSE /\ clSockets' = [clSockets EXCEPT ![clI] = "closed"]
            /\ clI' = clI + 1
            /\ UNCHANGED clPc
    /\ UNCHANGED <<clManager, clFaulty, clCalls, clPropagated, clTermed>>

\* the end of the sequence: CommunicationManager terminates the zmq context
cleanup_return ==
    /\ ClStep
    /\ clPc = "loop"
    /\ clI > Len(clSockets)
    /\ clPc' = "done"
    /\ clTermed' = (clManager = "CommunicationManager")
    /\ UNCHANGED <<clManager, clSockets, clFaulty, clI, clAttempted, clCalls,
                   clPropagated>>

InitCleanup ==
    BaseIdle /\ StIdle /\ CsvIdle /\ WvIdle /\ WgIdle /\ TgIdle /\ AsIdle
             /\ PqIdle
             /\ RpIdle
             /\ MsIdle
             /\ ClInit
             /\ SvIdle
             /\ GnIdle
             /\ LkIdle

NextCleanup == cleanup_call \/ cleanup_close \/ cleanup_return

SpecCleanup == InitCleanup /\ [][NextCleanup]_vars

\* C35: both cleanup implementations call close() on every socket they
\* hold even when a close() raises, let no exception out, and can be called
\* twice.
C35_ClosesEverySocket ==
    /\ ~clPropagated
    /\ clPc = "done" => clAttempted = 1..Len(clSockets)

(***************************************************************************)
(* main.py: DataLogger.stop run by Controller.stop while the logging       *)
(* thread (Controller._log_loop) may still be inside DataLogger.log        *)
(* (specification SpecSave).  Only the number of rows is followed.         *)
(***************************************************************************)
MaxLogged == 5

SvInit ==
    /\ svRunning = TRUE
    /\ svPath \in BOOLEAN
    /\ svBuffer \in 0..2
    /\ svLogPc = "loop"
    /\ svStopPc = "idle"
    /\ svArray = -1
    /\ svRows = -1
    /\ svSampleCount = -1

SvStep ==
    UNCHANGED <<baseVars, stVars, csvVars, wvVars, wgVars, tgVars, asVars,
                pqVars, rpVars, msVars, clVars, gnVars, lkVars>>

\* _log_loop: "while self.running:" and the first part of DataLogger.log,
\* up to the row being built (log returns at once without hdf5_path)
logging_build_row ==
    /\ SvStep
    /\ svLogPc = "loop"
    /\ svBuffer < MaxLogged
    /\ svLogPc' = IF ~svRunning THEN "exited"
                  ELSE IF svPath THEN "built" ELSE "loop"
    /\ UNCHANGED <<svRunning, svPath, svBuffer, svStopPc, svArray, svRows,
                   svSampleCount>>

\* "with self.lock: self.data_buffer.append(row)" and the sleep of the loop
logging_append ==
    /\ SvStep
    /\ svLogPc = "built"
    /\ svBuffer' = svBuffer + 1
    /\ svLogPc' = "loop"
    /\ UNCHANGED <<svRunning, svPath, svStopPc, svArray, svRows, svSampleCount>>

\* Controller.stop: self.running = False ... self.logger.stop(description);
\* the logging thread is not joined
saving_called ==
    /\ SvStep
    /\ svStopPc = "idle"
    /\ svRunning' = FALSE
    /\ svStopPc' = "convert"
    /\ UNCHANGED <<svPath, svBuffer, svLogPc, svArray, svRows, svSampleCount>>

\* "if not self.hdf5_path or not self.data_buffer: return" and
\* data_array = np.array(self.data_buffer)
saving_convert ==
    /\ SvStep
    /\ svStopPc = "convert"
    /\ IF ~svPath \/ svBuffer = 0
       THEN /\ svStopPc' = "returned"
            /\ UNCHANGED svArray
       ELSE /\ svArray' = svBuffer
            /\ svStopPc' = "dataset"
    /\ UNCHANGED <<svRunning, svPath, svBuffer, svLogPc, svRows, svSampleCount>>

\* the column names, create_group and
\* grp.create_dataset("data", data=data_array, ...); an exception of h5py
\* is logged and ends the call
saving_dataset ==
    /\ SvStep
    /\ svStopPc = "dataset"
    /\ \E raises \in BOOLEAN :
          IF raises
          THEN svStopPc' = "returned" /\ UNCHANGED svRows
          ELSE svStopPc' = "attrs" /\ svRows' = svArray
    /\ UNCHANGED <<svRunning, svPath, svBuffer, svLogPc, svArray, svSampleCount>>

\* the attributes: grp.attrs["sample_count"] = len(self.data_buffer)
saving_attrs ==
    /\ SvStep
    /\ svStopPc = "attrs"
    /\ svSampleCount' = svBuffer
    /\ svStopPc' = "returned"
    /\ UNCHANGED <<svRunning, svPath, svBuffer, svLogPc, svArray, svRows>>

InitSave ==
    BaseIdle /\ StIdle /\ CsvIdle /\ WvIdle /\ WgIdle /\ TgIdle /\ AsIdle
             /\ PqIdle
             /\ RpIdle
             /\ MsIdle
             /\ ClIdle
             /\ SvInit
             /\ GnIdle
             /\ LkIdle

NextSave ==
    \/ logging_build_row
    \/ logging_append
    \/ saving_called
    \/ saving_convert
    \/ saving_dataset
    \/ saving_attrs

SpecSave == InitSave /\ [][NextSave]_vars

\* C37: the sample_count attribute DataLogger.stop writes equals the number
\* of rows of the dataset it writes, whatever the logging thread does while
\* stop runs.
C37_SampleCountIsRowCount ==
    svSampleCount # -1 => svSampleCount = svRows

(***************************************************************************)
(* wave_generation.py: BaseSignalGenerator.start, stop and                 *)
(* get_current_value, called directly and through                          *)
(* MultiChannelSignalGenerator.get_all_values (specification               *)
(* SpecGenerator).  Times are in seconds; the duration is the default.     *)
(***************************************************************************)
\* the clock runs to a few seconds past a restarted generator's duration
MaxClock == 14

\* how far the clock advances between two calls
GnAdvances == {1, 4, 11}

\* a get_current_value that never expires, for comparison
NeverExpires(g, is_running, start_time, now) ==
    IF ~is_running \/ start_time = -1 THEN 0 ELSE Generate(g, now - start_time)

\* BaseSignalGenerator.get_current_value
get_current_value(g, is_running, start_time, now) ==
    IF ~is_running \/ start_time = -1 THEN 0
    ELSE IF now - start_time > sp_duration THEN g.offset
    ELSE Generate(g, now - start_time)

\* BaseSignalGenerator.__init__ of a generator of any type
GnInit ==
    /\ gnGen \in {[type |-> ty, amplitude |-> a, offset |-> o, custom |-> "none"] :
                      ty \in SignalTypes \ {"custom"}, a \in WgAmplitudes,
                      o \in WgOffsets}
                 \cup {[type |-> "custom", amplitude |-> a, offset |-> o, custom |-> c] :
                      a \in WgAmplitudes, o \in WgOffsets, c \in WgCustoms}
    /\ gnRunning = FALSE
    /\ gnStartTime = -1
    /\ gnNow = 0
    /\ gnRet = 0
    /\ gnPhase = "never"
    /\ gnCallPhase = "none"
    /\ gnCallElapsed = 0

GnStep ==
    UNCHANGED <<baseVars, stVars, csvVars, wvVars, wgVars, tgVars, asVars,
                pqVars, rpVars, msVars, clVars, svVars, lkVars>>

\* BaseSignalGenerator.start
generator_start ==
    /\ GnStep
    /\ gnStartTime' = gnNow
    /\ gnRunning' = TRUE
    /\ gnPhase' = "active"
    /\ UNCHANGED <<gnGen, gnNow, gnRet, gnCallPhase, gnCallElapsed>>

\* BaseSignalGenerator.stop, called from outside (stop_all)
generator_stop ==
    /\ GnStep
    /\ gnRunning
    /\ gnRunning' = FALSE
    /\ gnPhase' = "stopped"
    /\ UNCHANGED <<gnGen, gnStartTime, gnNow, gnRet, gnCallPhase, gnCallElapsed>>

\* time passes
generator_clock ==
    /\ GnStep
    /\ \E d \in GnAdvances :
          /\ gnNow + d <= MaxClock
          /\ gnNow' = gnNow + d
    /\ UNCHANGED <<gnGen, gnRunning, gnStartTime, gnRet, gnPhase, gnCallPhase,
                   gnCallElapsed>>

\* one call of get_current_value, directly or by get_all_values (which
\* returns 0.0 itself for a generator that is not running): past the
\* duration the call stops the generator
generator_get_current_value ==
    /\ GnStep
    /\ \E through_get_all_values \in BOOLEAN :
          gnRet' = IF through_get_all_values /\ ~gnRunning THEN 0
                   ELSE get_current_value(gnGen, gnRunning, gnStartTime, gnNow)
    /\ gnRunning' = (gnRunning /\ ~(gnStartTime # -1
                                    /\ gnNow - gnStartTime > sp_duration))
    /\ gnCallPhase' = gnPhase
    /\ gnCallElapsed' = IF gnStartTime = -1 THEN 0 ELSE gnNow - gnStartTime
    /\ gnPhase' = IF gnPhase = "active" /\ gnNow - gnStartTime > sp_duration
                  THEN "expired" ELSE gnPhase
    /\ UNCHANGED <<gnGen, gnStartTime, gnNow>>

InitGenerator ==
    BaseIdle /\ StIdle /\ CsvIdle /\ WvIdle /\ WgIdle /\ TgIdle /\ AsIdle
             /\ PqIdle
             /\ RpIdle
             /\ MsIdle
             /\ ClIdle
             /\ SvIdle
             /\ GnInit
             /\ LkIdle

NextGenerator ==
    \/ generator_start
    \/ generator_stop
    \/ generator_clock
    \/ generator_get_current_value

SpecGenerator == InitGenerator /\ [][NextGenerator]_vars

\* C38: a call of get_current_value on a started generator returns
\* generate(elapsed) while elapsed <= duration; the first call after the
\* duration returns the offset and stops the generator; every later call
\* returns 0.0 until start() is called again; a generator never started
\* returns 0.0.  (An active generator is running, an expired one is not.)
C38_CurrentValueLifecycle ==
    /\ gnPhase = "active" => gnRunning
    /\ gnPhase \in {"never", "expired"} => ~gnRunning
    /\ gnCallPhase \in {"never", "expired"} => gnRet = 0
    /\ (gnCallPhase = "active" /\ gnCallElapsed <= sp_duration) =>
           gnRet = Generate(gnGen, gnCallElapsed)
    /\ (gnCallPhase = "active" /\ gnCallElapsed > sp_duration) =>
           gnRet = gnGen.offset

\* a call on an expired generator whose offset is not 0 returned 0.0, and
\* the generator has been started again since
C38_Witness ==
    /\ gnCallPhase = "expired"
    /\ gnGen.offset # 0
    /\ gnRet = 0
    /\ gnPhase = "active"
    /\ gnStartTime > sp_duration

(***************************************************************************)
(* test_leakage.py: LeakageTest.run_test (specification SpecLeakage).      *)
(* Every exchange returns four readings, so the four lists of sensor_data  *)
(* have one length.  A sensor reads the test pressure until it starts to   *)
(* leak and 2 psi less from then on.  Averages over 10 readings are kept   *)
(* as sums, so a drop is in tenths of a psi.  The elapsed time of a pass   *)
(* is identified with the number of the pass.                              *)
(***************************************************************************)
MaxSamples == 13

\* LeakageTestConfig.TEST_PRESSURE, and LEAKAGE_THRESHOLD (0.5) times 10
TEST_PRESSURE == 10
LEAKAGE_THRESHOLD_TENTHS == 5

\* the 10 of "len(s) >= 10", "s[-10:]" and "/ 10"
LkWindow == 10

\* the reading of a leaking sensor
LkLowReading == TEST_PRESSURE - 2

\* the sensors that may start to leak
LkLeaky == {1, 3}

\* sum(s[-10:]) of a sensor with n >= 10 readings that reads low from
\* sample leak_at on
RecentSum(n, leak_at) ==
    LET low == IF leak_at = -1 THEN 0 ELSE Min(LkWindow, n - leak_at + 1)
    IN  (LkWindow - low) * TEST_PRESSURE + low * LkLowReading

\* [sum(s[-10:]) / 10 for s in self.sensor_data if len(s) >= 10]
Baseline(n, leak_at) ==
    IF n >= LkWindow THEN [i \in 1..4 |-> RecentSum(n, leak_at[i])] ELSE <<>>

\* the sensors (from 1) whose drop exceeds the threshold
Dropped(n, leak_at, baseline) ==
    {i \in 1..4 : baseline[i] - RecentSum(n, leak_at[i]) > LEAKAGE_THRESHOLD_TENTHS}

LkInit ==
    /\ lkPc = "loop"
    /\ lkRunning = TRUE
    /\ lkN = 0
    /\ lkLeakAt = <<-1, -1, -1, -1>>
    /\ lkStable = FALSE
    /\ lkBaseline = <<>>
    /\ lkDetected = FALSE
    /\ lkSensor = -1
    /\ lkTime = -1

LkStep ==
    UNCHANGED <<baseVars, stVars, csvVars, wvVars, wgVars, tgVars, asVars,
                pqVars, rpVars, msVars, clVars, svVars, gnVars>>

\* one pass of "while self.running": the exchanges and the stored sample,
\* the stabilization check with the baseline, the leak check over the four
\* sensors (baseline_pressure[i] raises IndexError past the end of the
\* list), the end of the test duration
run_test_pass ==
    /\ LkStep
    /\ lkPc = "loop"
    /\ lkN < MaxSamples
    /\ IF ~lkRunning
       THEN /\ lkPc' = "returned"
            /\ UNCHANGED <<lkN, lkLeakAt, lkStable, lkBaseline, lkDetected,
                           lkSensor, lkTime>>
       ELSE \E starts \in SUBSET LkLeaky, reached, over \in BOOLEAN :
            LET n == lkN + 1
                leak_at == [i \in 1..4 |->
                              IF lkLeakAt[i] = -1 /\ i \in starts THEN n
                              ELSE lkLeakAt[i]]
                completes == ~lkStable /\ reached
                stable == lkStable \/ completes
                baseline == IF completes THEN Baseline(n, leak_at)
                                         ELSE lkBaseline
                checks == stable /\ ~lkDetected /\ n >= LkWindow
                raises == checks /\ Len(baseline) < 4
                dropped == IF checks /\ ~raises
                           THEN Dropped(n, leak_at, baseline) ELSE {}
            IN  /\ lkN' = n
                /\ lkLeakAt' = leak_at
                /\ lkStable' = stable
                /\ lkBaseline' = baseline
                /\ lkDetected' = (lkDetected \/ dropped # {})
                /\ lkSensor' = IF dropped # {} THEN SetMax(dropped) ELSE lkSensor
                /\ lkTime' = IF dropped # {} THEN n ELSE lkTime
                /\ lkPc' = IF raises THEN "raised"
                           ELSE IF stable /\ over THEN "returned"
                           ELSE "loop"
    /\ UNCHANGED lkRunning

\* LeakageTest.stop: self.running = False
run_test_stop ==
    /\ LkStep
    /\ lkPc = "loop"
    /\ lkRunning
    /\ lkRunning' = FALSE
    /\ UNCHANGED <<lkPc, lkN, lkLeakAt, lkStable, lkBaseline, lkDetected,
                   lkSensor, lkTime>>

InitLeakage ==
    BaseIdle /\ StIdle /\ CsvIdle /\ WvIdle /\ WgIdle /\ TgIdle /\ AsIdle
             /\ PqIdle
             /\ RpIdle
             /\ MsIdle
             /\ ClIdle
             /\ SvIdle
             /\ GnIdle
             /\ LkInit

NextLeakage == run_test_pass \/ run_test_stop

SpecLeakage == InitLeakage /\ [][NextLeakage]_vars

\* C39: leakage_detected is True only when stabilization_complete is True;
\* once True it stays True and leakage_time is not changed; and no access
\* baseline_pressure[i] of the leak check is out of bounds (the loop never
\* raises), however many samples were collected before stabilization
\* completed.
C39_LeakCheckSafe ==
    /\ [](lkDetected => lkStable)
    /\ [](lkPc # "raised")
    /\ [][lkDetected => (lkDetected' /\ lkTime' = lkTime)]_vars

====
